---------------------------- MODULE Spec2Model ----------------------------
(***************************************************************************)
(* A model of better-dom (src/src/better-dom.js): wrappers around host     *)
(* nodes, the null objects, find, the event methods on/off/fire over the   *)
(* two host event models, the property accessors get/set and DOM.watch.    *)
(* The host (the document tree, its listener registry, its style           *)
(* animations) is modelled as far as the library drives it.                *)
(***************************************************************************)
EXTENDS Integers, Sequences, FiniteSets, TLC

(***************************************************************************)
(* Bounds of the model.                                                    *)
(***************************************************************************)
\* number of host elements besides the document; element 1 is <html>
NumElements == 3
\* wrapper objects constructed in one run (DOM itself is the first)
MaxWrappers == 3
\* length of a call chain that starts at a failed lookup
MaxChain == 2

(***************************************************************************)
(* The host document.                                                      *)
(***************************************************************************)
\* the document node
Document == 0
\* an absent node: undefined or null
NoNode == -1
\* document.documentElement
htmlEl == 1

Elements == 1..NumElements
Nodes == {Document} \cup Elements

\* an attribute that is not set
Absent == "<absent>"

\* the value undefined
Undefined == "<undefined>"
\* the id find puts on its root for the time of a scoped query
tmpId == "DOM<time>"

TagNames == {"html", "div", "span"}
IdValues == {Absent, "", "x"}
\* a class attribute: class names and the white space between them
ClassNames == {<<>>, <<"a">>, <<"a", "SP", "b">>, <<"a", "TAB", "b">>}

VARIABLES
    isW3Compliant,  \* the host has addEventListener
    isIECompliant,  \* the host has attachEvent
    children,       \* host tree: the child elements of every node, in order
    tagName,        \* host: the tag of every element
    idAttr,         \* host: the id attribute of every element
    nameAttr,       \* host: the name attribute of every element
    className,      \* host: the class attribute of every element
    attrs,          \* host: the other attributes of every element
    style,          \* host: the inline style of every element
    node_dom,       \* host: the __dom__ property of every node (0: unset)
    focusinSupported, \* host: <input> has the focusin event
    listeners,      \* host: the listeners registered on every node, in order
    offed,          \* history: the bindings an off call was made for
    wrappers,       \* every wrapper object constructed so far
    chain,          \* the value a call chain from a failed lookup has reached
    hostStartNames,     \* host: the event names an animation start is sent under
    clock,          \* host: what new Date().getTime() returns
    styleSheet,     \* host: the rules of the style sheet of importStyles
    running,        \* host: the animations every element has
    pending,        \* host: the animation-start events not yet dispatched
    DOM_watchers,   \* DOM._watchers
    watchers,       \* the document listeners of every DOM.watch call
    cancelBubbling, \* host: the cancelBubbling listeners on every element
    readyState,     \* host: document.readyState
    docEvents,      \* host: the load events not yet dispatched
    scrollIntervalId, \* the interval of the doScroll poll (0: none)
    readyCallbacks, \* the callbacks DOM.ready holds until the page is loaded
    timers,         \* host: the zero-delay timers not yet run, in order
    invocations,    \* history: every callback passed to ready, with how
                    \* often it was run and whether it came after loading
    last            \* the last call made and how it ended

vars == <<isW3Compliant, isIECompliant, children, tagName, idAttr, nameAttr,
          className, attrs, style, node_dom, focusinSupported, listeners, offed, wrappers, chain,
          hostStartNames, clock, styleSheet, running, pending, DOM_watchers,
          watchers, cancelBubbling, readyState, docEvents, scrollIntervalId,
          readyCallbacks, timers, invocations, last>>

\* what the host is: fixed once the page is loaded
hostVars == <<isW3Compliant, isIECompliant, focusinSupported, tagName, nameAttr,
              className>>

\* the state of the event methods
eventVars == <<listeners, offed>>

\* the state get and set work on
propVars == <<attrs, style>>

\* the state of DOM.ready and of the loading of the page
readyVars == <<readyState, docEvents, scrollIntervalId, readyCallbacks, timers,
               invocations>>

\* the state of DOM.watch and of the animations of the host
watchVars == <<hostStartNames, clock, styleSheet, running, pending, DOM_watchers,
               watchers, cancelBubbling>>

(***************************************************************************)
(* Host tree primitives.                                                   *)
(***************************************************************************)
InSeq(x, s) == \E i \in 1..Len(s) : s[i] = x

RemoveFromSeq(s, x) == SelectSeq(s, LAMBDA y : y # x)

\* node.parentNode
parentNode(ch, n) ==
    IF \E p \in Nodes : InSeq(n, ch[p])
    THEN CHOOSE p \in Nodes : InSeq(n, ch[p])
    ELSE NoNode

RECURSIVE Preorder(_, _), PreorderSeq(_, _)
\* n and its descendants in document order
Preorder(ch, n) == <<n>> \o PreorderSeq(ch, ch[n])

PreorderSeq(ch, s) ==
    IF s = <<>> THEN <<>>
    ELSE Preorder(ch, Head(s)) \o PreorderSeq(ch, Tail(s))

\* the proper descendants of n in document order
DescendantsOf(ch, n) == Tail(Preorder(ch, n))

RECURSIVE PathToRoot(_, _)
\* n, its parent, ... up to the root of the tree n is in
PathToRoot(ch, n) ==
    IF parentNode(ch, n) = NoNode THEN <<n>>
    ELSE <<n>> \o PathToRoot(ch, parentNode(ch, n))

\* parent.contains(child): child is parent or a descendant of it
containsElement(ch, parent, child) == InSeq(child, Preorder(ch, parent))

InDocument(ch, n) == containsElement(ch, Document, n)

(***************************************************************************)
(* Selectors.  A selector string is kept as the parts a compound selector  *)
(* is made of: tag#id[attr].class, each part possibly empty.               *)
(***************************************************************************)
Sel(tag, id, attr, cls) ==
    [form |-> "compound", tag |-> tag, id |-> id, attr |-> attr, cls |-> cls]

\* no selector
NoSel == [form |-> "none", tag |-> "", id |-> "", attr |-> "", cls |-> ""]

Selectors ==
    { Sel("div", "", "", ""), Sel("", "x", "", ""), Sel("", "", "", "a"),
      Sel("", "", "", "b"), Sel("div", "", "", "a") }

\* the class names of a class attribute, as the host's selector engine
\* splits it: at any white space
ClassTokens(cn) == { cn[i] : i \in 1..Len(cn) } \ {"SP", "TAB"}

\* the host's own selector matching (matchesSelector, querySelectorAll)
HostMatches(n, sel) ==
    /\ sel.tag = "" \/ tagName[n] = sel.tag
    /\ sel.id = "" \/ idAttr[n] = sel.id
    /\ sel.attr = "" \/ (sel.attr = "id" /\ idAttr[n] # Absent)
                     \/ (sel.attr = "class" /\ className[n] # <<>>)
    /\ sel.cls = "" \/ sel.cls \in ClassTokens(className[n])

\* whether " " + el.className + " " holds the string " " + cls + " "
ClassNameIndexOf(cn, cls) ==
    \E i \in 1..Len(cn) :
        /\ cn[i] = cls
        /\ i = 1 \/ cn[i - 1] = "SP"
        /\ i = Len(cn) \/ cn[i + 1] = "SP"

\* rquickIs of SelectorMatcher: tag#id[attr].class, every part optional
rquickIs(sel) == sel.form = "compound"

\* SelectorMatcher.prototype.test
SelectorMatcher_test(n, sel) ==
    IF rquickIs(sel)
    THEN /\ sel.tag = "" \/ tagName[n] = sel.tag
         /\ sel.id = "" \/ (idAttr[n] # Absent /\ idAttr[n] = sel.id)
         /\ sel.attr = "" \/ (sel.attr = "id" /\ idAttr[n] # Absent)
                          \/ (sel.attr = "class" /\ className[n] # <<>>)
         /\ sel.cls = "" \/ ClassNameIndexOf(className[n], sel.cls)
    ELSE HostMatches(n, sel)

\* rquickExpr of find: "#id", "tag" or ".class" and nothing else
rquickExpr(sel) ==
    /\ sel.form = "compound"
    /\ sel.attr = ""
    /\ Cardinality({ f \in {"tag", "id", "cls"} : sel[f] # "" }) = 1


(***************************************************************************)
(* Wrappers: DOMNode, DOMElement and the null objects.                     *)
(***************************************************************************)
\* the own methods of DOMNode.prototype
DOMNodeMethods ==
    {"find", "findAll", "getData", "setData", "contains", "on", "off", "fire"}

\* the own methods of DOMElement.prototype
DOMElementMethods ==
    {"matches", "clone", "offset", "show", "hide", "toString", "get", "set",
     "next", "prev", "parent", "firstChild", "lastChild", "nextAll",
     "prevAll", "children", "after", "before", "prepend", "append",
     "replace", "remove", "hasClass", "addClass", "removeClass",
     "toggleClass", "getStyle", "setStyle"}

NullCtors == {"DOMNullNode", "DOMNullElement"}

\* new DOMNode(node) / new DOMElement(element): the constructor body
\* (_data is kept as the value of its one key, DataKey)
NewWrapper(ctor, n) ==
    [ctor |-> ctor, node |-> n, data |-> Undefined, events |-> <<>>]

\* new DOMNullNode() / new DOMNullElement()
NewNullWrapper(ctor) ==
    [ctor |-> ctor, node |-> NoNode, data |-> Undefined, events |-> <<>>]

IsNull(w) == wrappers[w].ctor \in NullCtors

\* DOMNode(node) and DOMElement(element) called as functions: the wrapper
\* the node carries in __dom__, else a new wrapper, else a new null object.
\* ws is the wrappers so far; the result is the wrappers after the call and
\* the index of the wrapper returned.
WrapCall(ctor, nullCtor, ws, n) ==
    IF n # NoNode
    THEN IF node_dom[n] # 0
         THEN [ws |-> ws, ret |-> node_dom[n]]
         ELSE [ws |-> Append(ws, NewWrapper(ctor, n)), ret |-> Len(ws) + 1]
    ELSE [ws |-> Append(ws, NewNullWrapper(nullCtor)), ret |-> Len(ws) + 1]

DOMNodeCall(ws, n) == WrapCall("DOMNode", "DOMNullNode", ws, n)

DOMElementCall(ws, n) == WrapCall("DOMElement", "DOMNullElement", ws, n)

RECURSIVE MapDOMElement(_, _)
\* _.map(elements, DOMElement): one DOMElement call per element, in order
MapDOMElement(ws, elems) ==
    IF elems = <<>> THEN [ws |-> ws, ret |-> <<>>]
    ELSE LET one == DOMElementCall(ws, Head(elems))
             rest == MapDOMElement(one.ws, Tail(elems))
         IN  [ws |-> rest.ws, ret |-> <<one.ret>> \o rest.ret]

\* the methods a null object overrides by function() {}
NullMethods(ctor) ==
    IF ctor = "DOMNullNode" THEN DOMNodeMethods
    ELSE DOMNodeMethods \cup DOMElementMethods

\* what the override function() {} of a null object returns
NullMethodResult(w) == [kind |-> "undefined", id |-> 0]

NoChain == [kind |-> "none", id |-> 0, len |-> 0]

\* makeError(method, type)
makeError(method, type) == <<"Error", type, method>>

NoError == <<"none">>
TypeError == <<"TypeError">>

(***************************************************************************)
(* find and findAll.                                                       *)
(***************************************************************************)
\* document.getElementById(m): the first element of the document with id m;
\* the hosts that return items by name take an element with the name m too
getElementById(m) ==
    LET hits == SelectSeq(DescendantsOf(children, Document),
                          LAMBDA e : idAttr[e] = m \/ nameAttr[e] = m)
    IN  IF hits = <<>> THEN NoNode ELSE Head(hits)

\* the elements the "#id" quick path of find yields: <<elem>>, or nothing
\* (elements stays undefined)
QuickIdElements(node, m) ==
    LET e == getElementById(m)
    IN  IF /\ e # NoNode
           /\ parentNode(children, e) # NoNode
           /\ idAttr[e] = m
           /\ (node = Document \/ containsElement(children, node, e))
        THEN [defined |-> TRUE, elems |-> <<e>>]
        ELSE [defined |-> FALSE, elems |-> <<>>]

\* the elements find collects for a selector below node
FindElements(node, sel) ==
    IF rquickExpr(sel)
    THEN IF sel.id # "" THEN QuickIdElements(node, sel.id)
         ELSE [defined |-> TRUE,
               elems |-> SelectSeq(DescendantsOf(children, node),
                                   LAMBDA e : HostMatches(e, sel))]
    ELSE [defined |-> TRUE,
          elems |-> SelectSeq(DescendantsOf(children, node),
                              LAMBDA e : HostMatches(e, sel))]

\* the id attribute of the root after the scoped query of the fallback path:
\* a falsy id was replaced by tmpId and is removed in the finally block
IdAfterFind(node, sel) ==
    IF rquickExpr(sel) \/ node = Document THEN idAttr
    ELSE IF idAttr[node] \in {Absent, ""}
         THEN [idAttr EXCEPT ![node] = Absent]
         ELSE idAttr

\* wrapper.find(selector): the first element found, wrapped by DOMElement
Find(w, sel) ==
    /\ ~IsNull(w)
    /\ Len(wrappers) < MaxWrappers
    /\ LET found == FindElements(wrappers[w].node, sel)
           first == IF found.elems = <<>> THEN NoNode ELSE Head(found.elems)
           res == DOMElementCall(wrappers, first)
       IN  /\ wrappers' = res.ws
           /\ idAttr' = IdAfterFind(wrappers[w].node, sel)
           /\ chain' = IF res.ws[res.ret].ctor \in NullCtors
                       THEN [kind |-> "wrapper", id |-> res.ret, len |-> 0]
                       ELSE NoChain
           /\ last' = [op |-> "find", w |-> w, sel |-> sel, node |-> first,
                       ret |-> <<res.ret>>, raised |-> NoError]
    /\ UNCHANGED <<hostVars, readyVars, propVars, watchVars, children, node_dom, eventVars>>

\* wrapper.findAll(selector): new DOMElementCollection(elements)
FindAll(w, sel) ==
    /\ ~IsNull(w)
    /\ LET found == FindElements(wrappers[w].node, sel)
           res == MapDOMElement(wrappers, found.elems)
       IN  /\ Len(res.ws) <= MaxWrappers
           /\ idAttr' = IdAfterFind(wrappers[w].node, sel)
           /\ IF found.defined
              THEN /\ wrappers' = res.ws
                   /\ last' = [op |-> "findAll", w |-> w, sel |-> sel,
                               node |-> NoNode, ret |-> res.ret,
                               raised |-> NoError]
              ELSE \* _.map(undefined, DOMElement) reads undefined.length
                   /\ wrappers' = wrappers
                   /\ last' = [op |-> "findAll", w |-> w, sel |-> sel,
                               node |-> NoNode, ret |-> <<>>,
                               raised |-> TypeError]
    /\ chain' = NoChain
    /\ UNCHANGED <<hostVars, readyVars, propVars, watchVars, children, node_dom, eventVars>>

\* DOMNode(node) called as a function
CallDOMNode(n) ==
    /\ Len(wrappers) < MaxWrappers
    /\ LET res == DOMNodeCall(wrappers, n)
       IN  /\ wrappers' = res.ws
           /\ last' = [op |-> "DOMNode", node |-> n, ret |-> <<res.ret>>,
                       raised |-> NoError]
    /\ chain' = NoChain
    /\ UNCHANGED <<hostVars, readyVars, propVars, watchVars, children, idAttr, node_dom, eventVars>>

\* DOMElement(element) called as a function
CallDOMElement(n) ==
    /\ Len(wrappers) < MaxWrappers
    /\ LET res == DOMElementCall(wrappers, n)
       IN  /\ wrappers' = res.ws
           /\ last' = [op |-> "DOMElement", node |-> n, ret |-> <<res.ret>>,
                       raised |-> NoError]
    /\ chain' = NoChain
    /\ UNCHANGED <<hostVars, readyVars, propVars, watchVars, children, idAttr, node_dom, eventVars>>

\* DOM.create(content) with a native element, or with a value that is
\* neither a string nor an element (NoNode here)
Create(content) ==
    /\ Len(wrappers) < MaxWrappers
    /\ IF content = NoNode
       THEN /\ wrappers' = wrappers
            /\ last' = [op |-> "create", node |-> content, ret |-> <<>>,
                        raised |-> makeError("create", "DOM")]
       ELSE LET res == DOMElementCall(wrappers, content)
            IN  /\ wrappers' = res.ws
                /\ last' = [op |-> "create", node |-> content,
                            ret |-> <<res.ret>>, raised |-> NoError]
    /\ chain' = NoChain
    /\ UNCHANGED <<hostVars, readyVars, propVars, watchVars, children, idAttr, node_dom, eventVars>>

\* the next call of a chain that started at a failed find: a method of a
\* null object, or a method call on the undefined that method returned
NullCall(op) ==
    /\ chain.kind \in {"wrapper", "undefined"}
    /\ chain.len < MaxChain
    /\ IF chain.kind = "wrapper" /\ op \in NullMethods(wrappers[chain.id].ctor)
       THEN LET r == NullMethodResult(chain.id)
            IN  /\ chain' = [kind |-> r.kind, id |-> r.id,
                             len |-> chain.len + 1]
                /\ last' = [op |-> "nullcall", method |-> op, on |-> chain.id,
                            result |-> r, raised |-> NoError]
       ELSE \* undefined has no methods; a DOMNullNode has no element methods
            /\ chain' = [kind |-> "raised", id |-> 0, len |-> chain.len + 1]
            /\ last' = [op |-> "nullcall", method |-> op, on |-> chain.id,
                        result |-> [kind |-> "raised", id |-> 0],
                        raised |-> TypeError]
    /\ UNCHANGED <<hostVars, readyVars, propVars, watchVars, children, idAttr, node_dom, wrappers, eventVars>>

(***************************************************************************)
(* Initial states.                                                         *)
(***************************************************************************)
\* <<2, 3, ..., NumElements>>
OtherElements == [i \in 1..(NumElements - 1) |-> i + 1]

\* document > html > 2 > 3 ...
ChainTree == [n \in Nodes |-> IF n < NumElements THEN <<n + 1>> ELSE <<>>]

\* document > html > (2, 3, ...)
StarTree ==
    [n \in Nodes |-> IF n = Document THEN <<htmlEl>>
                     ELSE IF n = htmlEl THEN OtherElements ELSE <<>>]

\* document > html; every other element detached
LoneTree == [n \in Nodes |-> IF n = Document THEN <<htmlEl>> ELSE <<>>]

\* the library has run: DOM = new DOMNode(document) is the one wrapper, no
\* node carries a wrapper
InitLibrary ==
    /\ node_dom = [n \in Nodes |-> 0]
    /\ wrappers = <<NewWrapper("DOMNode", Document)>>
    /\ chain = NoChain
    /\ last = [op |-> "init", raised |-> NoError]

\* <html>, then <div> and <span> elements in turn
InitTags ==
    tagName = [e \in Elements |-> IF e = htmlEl THEN "html"
                                  ELSE IF e % 2 = 0 THEN "div" ELSE "span"]

\* no element has a name attribute
InitNames ==
    nameAttr = [e \in Elements |-> Absent]

\* no listener is registered
InitEvents ==
    /\ listeners = [n \in Nodes |-> <<>>]
    /\ offed = {}

\* the attribute names of the model: title is also a property of every
\* element, data-x is an attribute only
AttrNames == {"title", "data-x"}

\* the properties of a style object of the host, as the computed style of
\* <html> lists them
props == <<"width", "margin", "color", "font-size", "-webkit-transform">>

\* propName.replace(rdash, dashSeparatedToCamelCase), in the letter case the
\* computed style has the property in
stylePropName(propName) ==
    CASE propName = "font-size" -> "fontSize"
      [] propName = "-webkit-transform" -> "WebkitTransform"
      [] OTHER -> propName

\* the name behind the vendor prefix
unprefixedName(propName) ==
    IF propName = "-webkit-transform" THEN "transform" ELSE propName

\* the keys of a style object
StyleProps == { stylePropName(props[i]) : i \in 1..Len(props) }

\* no element has an inline style
InitStyle ==
    style = [e \in Elements |-> [q \in StyleProps |-> ""]]

\* no element has a title or a data-x attribute or an inline style
InitProps ==
    /\ attrs = [e \in Elements |-> [a \in AttrNames |-> Absent]]
    /\ InitStyle

\* readyCallbacks = null
NullCallbacks == <<-1>>

\* the library was loaded into a complete page: pageLoaded has run during
\* construction and no load event is to come
InitReady ==
    /\ readyState = "complete"
    /\ docEvents = {}
    /\ scrollIntervalId = 0
    /\ readyCallbacks = NullCallbacks
    /\ timers = <<>>
    /\ invocations = <<>>

\* DOM.watch was never called and the style sheet of importStyles is empty
InitWatch ==
    /\ hostStartNames = {"animationstart"}
    /\ clock = 0
    /\ styleSheet = <<>>
    /\ running = [e \in Elements |-> {}]
    /\ pending = {}
    /\ DOM_watchers = <<>>
    /\ watchers = <<>>
    /\ cancelBubbling = [e \in Elements |-> {}]

Init ==
    /\ InitLibrary
    /\ InitEvents
    /\ InitProps
    /\ InitReady
    /\ InitWatch
    /\ isW3Compliant = TRUE
    /\ isIECompliant = FALSE
    /\ focusinSupported = TRUE
    /\ children \in {ChainTree, StarTree, LoneTree}
    /\ InitTags
    /\ InitNames
    /\ idAttr \in { f \in [Elements -> IdValues] : f[htmlEl] = Absent }
    /\ className \in { f \in [Elements -> {<<>>, <<"a">>}] : f[htmlEl] = <<>> }

(***************************************************************************)
(* Spec: wrapping, lookups and call chains on null objects.                *)
(***************************************************************************)
WrapNode == \E n \in Nodes \cup {NoNode} : CallDOMNode(n)

WrapElement == \E n \in Elements \cup {NoNode} : CallDOMElement(n)

CreateStep == \E n \in Elements \cup {NoNode} : Create(n)

FindStep == \E w \in 1..Len(wrappers), sel \in Selectors : Find(w, sel)

FindAllStep == \E w \in 1..Len(wrappers), sel \in Selectors : FindAll(w, sel)

\* the methods chained in the model: those of DOMNode and one of each group
\* of DOMElement (accessors, styles, traversal, manipulation, classes)
ChainedMethods ==
    DOMNodeMethods \cup
    {"matches", "get", "set", "getStyle", "setStyle", "next", "append",
     "addClass"}

NullCallStep == \E op \in ChainedMethods : NullCall(op)

Next ==
    \/ WrapNode
    \/ WrapElement
    \/ CreateStep
    \/ FindStep
    \/ FindAllStep
    \/ NullCallStep

Spec == Init /\ [][Next]_vars

\* C1: every wrapper obtained for a host node is the same wrapper instance:
\* no two wrapper objects wrap the same node.
C1_OneWrapperPerNode ==
    \A i, j \in 1..Len(wrappers) :
        (wrappers[i].node # NoNode /\ wrappers[i].node = wrappers[j].node)
            => i = j

\* C7: a method called on the null wrapper of a failed lookup does not raise
\* and returns that null wrapper itself, so the chain can go on.
C7_NullMethodsReturnSelf ==
    last.op = "nullcall" =>
        /\ last.raised = NoError
        /\ last.result.kind = "wrapper"
        /\ last.result.id = last.on

\* C8: wrapping an absent node and every failed lookup return one shared
\* null wrapper: no two null objects exist.
C8_NullSingleton ==
    \A i, j \in 1..Len(wrappers) : (IsNull(i) /\ IsNull(j)) => i = j


(***************************************************************************)
(* Events: on, off and fire over the host's listener registry.             *)
(***************************************************************************)
\* bindings made in one run, over all wrappers
MaxBindings == 1

EventTypes == {"click", "focus", "ns:evt"}

\* an argument given where a string is expected and that is not a string
NonString == "<not a string>"

\* type.indexOf(":") >= 0
HasColon(type) == type \in {"ns:evt"}

Callbacks == {"cb1", "cb2"}

\* script values passed as selector and callback
JsUndefined == [t |-> "undefined", fn |-> "", sel |-> NoSel]
JsNumber == [t |-> "number", fn |-> "", sel |-> NoSel]
JsFunction(c) == [t |-> "function", fn |-> c, sel |-> NoSel]
JsString(sel) == [t |-> "string", fn |-> "", sel |-> sel]

\* undefined and null are falsy; a function, a selector string, 5 are not
Truthy(v) == v.t # "undefined"

\* eventHooks[type]: name "" when the hook sets no name (or there is no hook)
eventHooks(type) ==
    IF type \in {"focus", "blur"}
    THEN IF focusinSupported
         THEN [name |-> IF type = "focus" THEN "focusin" ELSE "focusout",
               capturing |-> FALSE]
         ELSE [name |-> "", capturing |-> TRUE]
    ELSE IF type = "invalid" THEN [name |-> "", capturing |-> TRUE]
    ELSE [name |-> "", capturing |-> FALSE]

\* the bindings of all wrappers: <<wrapper, index in its _events>>
AllBindings(ws) ==
    UNION { { <<w, i>> : i \in 1..Len(ws[w].events) } : w \in 1..Len(ws) }

\* one turn of the loop of on: the entry for one event type is built, its
\* handler is registered with the host and the entry is pushed to _events.
\* The handler of an entry is known by the entry's place <<w, i>>.
BindOne(st, w, type, selector, callback) ==
    LET hook == eventHooks(type)
        custom == ~isW3Compliant /\ HasColon(type)
        entry == [name |-> IF custom THEN "dataavailable"
                           ELSE IF hook.name # "" THEN hook.name ELSE type,
                  type |-> type,
                  callback |-> callback,
                  capturing |-> hook.capturing,
                  selector |-> selector,
                  srcUrnFilter |-> custom]
        i == Len(st.ws[w].events) + 1
        reg == [name |-> entry.name,
                capturing |-> isW3Compliant /\ entry.capturing,
                w |-> w, i |-> i]
    IN  [ws |-> [st.ws EXCEPT ![w].events = Append(@, entry)],
         ls |-> [st.ls EXCEPT ![st.ws[w].node] = Append(@, reg)]]

RECURSIVE BindAll(_, _, _, _, _)
\* _.forEach(event.split(" "), ...)
BindAll(st, w, types, selector, callback) ==
    IF types = <<>> THEN st
    ELSE BindAll(BindOne(st, w, Head(types), selector, callback),
                 w, Tail(types), selector, callback)

\* on with a string event: a function in the selector's place is the callback
OnString(st, w, types, selector, callback) ==
    IF selector.t = "function"
    THEN BindAll(st, w, types, JsUndefined, selector)
    ELSE BindAll(st, w, types, selector, callback)

RECURSIVE OnObject(_, _, _)
\* on with a mapping: this.on(key, event[key]) for every key
OnObject(st, w, pairs) ==
    IF pairs = <<>> THEN st
    ELSE OnObject(OnString(st, w, <<Head(pairs).key>>, Head(pairs).value,
                           JsUndefined),
                  w, Tail(pairs))

\* the arguments the contract of on accepts
ValidOnArgs(event, selector, callback) ==
    \/ /\ event.kind = "string"
       /\ selector.t = "function" \/ callback.t = "function"
    \/ /\ event.kind = "object"
       /\ \A k \in 1..Len(event.pairs) : event.pairs[k].value.t = "function"

\* wrapper.on(event, selector, callback), in a run of at most cap bindings
OnWithin(cap, w, event, selector, callback) ==
    /\ ~IsNull(w)
    /\ Cardinality(AllBindings(wrappers)) < cap
    /\ LET st0 == [ws |-> wrappers, ls |-> listeners]
           st == CASE event.kind = "string" ->
                          OnString(st0, w, event.types, selector, callback)
                   [] event.kind = "object" -> OnObject(st0, w, event.pairs)
                   [] OTHER -> st0
           raised == CASE event.kind \in {"string", "object"} -> NoError
                       \* typeof null is "object": _.keys(null) throws
                       [] event.kind = "null" -> TypeError
                       [] OTHER -> makeError("on", "DOMElement")
           node == wrappers[w].node
       IN  /\ Cardinality(AllBindings(st.ws)) <= cap
           /\ wrappers' = st.ws
           /\ listeners' = st.ls
           /\ last' = [op |-> "on",
                       valid |-> ValidOnArgs(event, selector, callback),
                       raised |-> raised,
                       added |-> Len(st.ws[w].events) - Len(wrappers[w].events),
                       attached |-> Len(st.ls[node]) - Len(listeners[node])]
    /\ UNCHANGED <<hostVars, readyVars, propVars, watchVars, children, idAttr, node_dom, chain, offed>>

\* wrapper.on(event, selector, callback)
On(w, event, selector, callback) ==
    OnWithin(MaxBindings, w, event, selector, callback)

\* the entries of wrapper w that off(eventType, callback) unregisters
OffMatches(w, eventType, callback) ==
    { i \in 1..Len(wrappers[w].events) :
        /\ eventType = wrappers[w].events[i].name
        /\ ~Truthy(callback) \/ callback = wrappers[w].events[i].callback }

\* wrapper.off(eventType, callback)
Off(w, type, callback) ==
    /\ ~IsNull(w)
    /\ IF type = NonString \/ callback.t \notin {"undefined", "function"}
       THEN /\ last' = [op |-> "off",
                        raised |-> makeError("off", "DOMElement")]
            /\ UNCHANGED <<listeners, offed>>
       ELSE LET hook == eventHooks(type)
                eventType == IF hook.name # "" THEN hook.name ELSE type
                hit == OffMatches(w, eventType, callback)
                node == wrappers[w].node
            IN  \* removeEventListener(eventType, entry.handler,
                \* entry.capturing), detachEvent("on" + eventType, handler)
                /\ listeners' =
                     [listeners EXCEPT ![node] =
                        SelectSeq(@, LAMBDA r :
                           ~(/\ r.w = w
                             /\ r.i \in hit
                             /\ r.name = eventType
                             /\ r.capturing = (isW3Compliant /\
                                   wrappers[w].events[r.i].capturing)))]
                /\ offed' = offed \cup
                     { <<w, i>> : i \in
                         { j \in 1..Len(wrappers[w].events) :
                             /\ wrappers[w].events[j].type = type
                             /\ callback.t = "function"
                             /\ wrappers[w].events[j].callback = callback } }
                /\ last' = [op |-> "off", raised |-> NoError]
    /\ UNCHANGED <<hostVars, readyVars, propVars, watchVars, children, idAttr, node_dom, wrappers, chain>>


Reverse(s) == [k \in 1..Len(s) |-> s[Len(s) + 1 - k]]

RECURSIVE Repeat(_, _)
Repeat(x, k) == IF k <= 0 THEN <<>> ELSE <<x>> \o Repeat(x, k - 1)

\* the nodes the delegating handler tests: from the event's target upwards,
\* up to but not including currentTarget
WalkUp(target, currentTarget) ==
    LET path == PathToRoot(children, target)
        stop == { k \in 1..Len(path) : path[k] = currentTarget }
    IN  IF stop = {} THEN path
        ELSE SubSeq(path, 1, (CHOOSE k \in stop : TRUE) - 1)

\* simpleEventHandler: callback.call(thisPtr, DOMEvent(e)); calling what is
\* not a function raises a TypeError inside the handler and calls nothing.
\* The result is the number of times the callback is called.
simpleEventHandler(entry) == IF entry.callback.t = "function" THEN 1 ELSE 0

\* matcher.test(elem) for the selector value on was given; a number such as
\* 5 is read as the tag name "5", which no element has
MatcherTest(elem, selector) ==
    /\ selector.t = "string"
    /\ elem \in Elements
    /\ SelectorMatcher_test(elem, selector.sel)

\* createEventHandler with a loop that does not return at the first match:
\* the callback is called for every matching node of the walk
createEventHandler_NoReturn(entry, currentTarget, target) ==
    IF ~Truthy(entry.selector) THEN simpleEventHandler(entry)
    ELSE LET walk == WalkUp(target, currentTarget)
         IN  Cardinality({ k \in 1..Len(walk) :
                             MatcherTest(walk[k], entry.selector) })
             * simpleEventHandler(entry)

\* the handler createEventHandler returns, run for an event with the given
\* target: the number of times the callback is called
createEventHandler(entry, currentTarget, target) ==
    IF ~Truthy(entry.selector) THEN simpleEventHandler(entry)
    ELSE LET walk == WalkUp(target, currentTarget)
         IN  IF \E k \in 1..Len(walk) : MatcherTest(walk[k], entry.selector)
             THEN simpleEventHandler(entry)
             ELSE 0

\* the handler the host holds for a registration, run for an event: the
\* handler of a custom event on the legacy host passes on only the events
\* whose srcUrn is its own event type
RunHandler(reg, target, srcUrn) ==
    LET entry == wrappers[reg.w].events[reg.i]
    IN  IF entry.srcUrnFilter /\ srcUrn # entry.type THEN 0
        ELSE createEventHandler(entry, wrappers[reg.w].node, target)

RECURSIVE RegsAlong(_, _, _)
\* the listeners for an event name on the nodes of a path, in the order the
\* host calls them; caps is the set of phases (capturing or not) wanted
RegsAlong(path, name, caps) ==
    IF path = <<>> THEN <<>>
    ELSE SelectSeq(listeners[Head(path)],
                   LAMBDA r : r.name = name /\ r.capturing \in caps)
         \o RegsAlong(Tail(path), name, caps)

\* dispatchEvent for an event that does not leave its target
dispatchEvent_NoBubble(target, name) ==
    RegsAlong(<<target>>, name, BOOLEAN)

\* node.dispatchEvent(event) for a bubbling event: capture phase from the
\* root down, the target, bubble phase up to the root
dispatchEvent(target, name) ==
    LET path == PathToRoot(children, target)
    IN  RegsAlong(Reverse(Tail(path)), name, {TRUE})
        \o RegsAlong(<<target>>, name, BOOLEAN)
        \o RegsAlong(Tail(path), name, {FALSE})

\* node.fireEvent("on" + name, event): the target, then up to the root
fireEvent(target, name) ==
    RegsAlong(PathToRoot(children, target), name, BOOLEAN)

RECURSIVE Invocations(_, _, _)
\* the callbacks called, in order, when the host runs the handlers regs
Invocations(regs, target, srcUrn) ==
    IF regs = <<>> THEN <<>>
    ELSE Repeat(<<Head(regs).w, Head(regs).i>>,
                RunHandler(Head(regs), target, srcUrn))
         \o Invocations(Tail(regs), target, srcUrn)

\* wrapper.fire(eventType, detail)
Fire(w, type) ==
    /\ ~IsNull(w)
    /\ IF type = NonString
       THEN last' = [op |-> "fire", type |-> type,
                     raised |-> makeError("fire", "DOMElement")]
       ELSE LET isCustomEvent == HasColon(type)
                hook == eventHooks(type)
                eventType == IF hook.name # "" THEN hook.name ELSE type
                target == wrappers[w].node
                regs == IF isW3Compliant THEN dispatchEvent(target, eventType)
                        ELSE IF isCustomEvent
                             THEN fireEvent(target, "dataavailable")
                             ELSE fireEvent(target, eventType)
                srcUrn == IF isCustomEvent THEN eventType ELSE ""
            IN  last' = [op |-> "fire", type |-> type,
                         target |-> target,
                         \* createEvent("CustomEvent") or createEvent("Event")
                         custom |-> isCustomEvent,
                         \* the name handed to the host, and srcUrn
                         dispatched |-> IF ~isW3Compliant /\ isCustomEvent
                                        THEN "dataavailable" ELSE eventType,
                         srcUrn |-> srcUrn,
                         invoked |-> Invocations(regs, target, srcUrn),
                         raised |-> NoError]
    /\ UNCHANGED <<hostVars, readyVars, propVars, watchVars, children, idAttr, node_dom, wrappers, chain,
                   eventVars>>

(***************************************************************************)
(* SpecEvents: on, off and fire on a loaded page.                          *)
(***************************************************************************)
\* the wrappers the page's script holds: DOM and one for every element
\* below <html>
PageWrappers ==
    [k \in 1..NumElements |->
        IF k = 1 THEN NewWrapper("DOMNode", Document)
        ELSE NewWrapper("DOMElement", k)]

\* the hosts: standard with and without focusin, legacy (which has focusin)
InitSpecEvents ==
    /\ InitProps
    /\ InitReady
    /\ InitWatch
    /\ node_dom = [n \in Nodes |-> 0]
    /\ wrappers = PageWrappers
    /\ chain = NoChain
    /\ last = [op |-> "init", raised |-> NoError]
    /\ InitEvents
    /\ isW3Compliant \in BOOLEAN
    /\ isIECompliant = ~isW3Compliant
    /\ focusinSupported \in BOOLEAN
    /\ isW3Compliant \/ focusinSupported
    /\ children = ChainTree
    /\ InitTags
    /\ InitNames
    /\ idAttr = [e \in Elements |-> Absent]
    /\ className \in { f \in [Elements -> {<<>>, <<"a">>, <<"a", "TAB", "b">>}] :
                        f[htmlEl] = <<>> }

StringEvent(types) == [kind |-> "string", types |-> types, pairs |-> <<>>]

ObjectEvent(pairs) == [kind |-> "object", types |-> <<>>, pairs |-> pairs]

\* the event arguments on is called with: one type, a list of two types, a
\* mapping, null, and a value that is neither a string nor an object
OnEvents ==
    { StringEvent(<<t>>) : t \in EventTypes } \cup
    { StringEvent(<<"click", "focus">>) } \cup
    { ObjectEvent(<<[key |-> "click", value |-> v]>>) :
        v \in {JsFunction("cb1"), JsNumber} } \cup
    { [kind |-> "null", types |-> <<>>, pairs |-> <<>>],
      [kind |-> "other", types |-> <<>>, pairs |-> <<>>] }

\* the selector and callback arguments on is called with: on(e, cb),
\* on(e, S, cb), on(e), on(e, S)
OnRest ==
    { <<JsFunction(c), JsUndefined>> : c \in Callbacks } \cup
    { <<JsString(Sel("", "", "", "a")), JsFunction(c)>> : c \in Callbacks } \cup
    { <<JsUndefined, JsUndefined>>,
      <<JsString(Sel("", "", "", "a")), JsUndefined>> }

OnStep ==
    \E w \in 1..Len(wrappers), event \in OnEvents, rest \in OnRest :
        On(w, event, rest[1], rest[2])

OffStep ==
    \E w \in 1..Len(wrappers), type \in EventTypes \cup {NonString},
       callback \in {JsUndefined, JsNumber} \cup
                    { JsFunction(c) : c \in Callbacks } :
        Off(w, type, callback)

FireStep ==
    \E w \in 1..Len(wrappers), type \in EventTypes \cup {NonString} :
        Fire(w, type)

NextEvents == OnStep \/ OffStep \/ FireStep

SpecEvents == InitSpecEvents /\ [][NextEvents]_vars


\* how often x occurs in a sequence
Count(seq, x) == Cardinality({ k \in 1..Len(seq) : seq[k] = x })

\* the host still holds the handler of binding <<w, i>>
Registered(w, i) ==
    \E k \in 1..Len(listeners[wrappers[w].node]) :
        /\ listeners[wrappers[w].node][k].w = w
        /\ listeners[wrappers[w].node][k].i = i

\* C2: once off(type, cb) was called for a binding made by on(type, cb) on
\* the same wrapper, the host holds no listener of that binding and no
\* fire invokes cb through it.
C2_OffRemovesListener ==
    \A h \in offed :
        /\ ~Registered(h[1], h[2])
        /\ (last.op = "fire" /\ last.raised = NoError)
               => Count(last.invoked, h) = 0

\* the last call fired the event type of the delegated binding <<w, i>>,
\* which is still registered, from a proper descendant of the bound node
DelegatedFired(w, i) ==
    /\ last.op = "fire"
    /\ last.raised = NoError
    /\ wrappers[w].events[i].selector.t = "string"
    /\ wrappers[w].events[i].callback.t = "function"
    /\ wrappers[w].events[i].type = last.type
    /\ Registered(w, i)
    /\ last.target # wrappers[w].node
    /\ containsElement(children, wrappers[w].node, last.target)

\* the nodes from the target up to, and without, the bound node
BelowBound(w) ==
    { n \in Elements :
        /\ n # wrappers[w].node
        /\ containsElement(children, wrappers[w].node, n)
        /\ containsElement(children, n, last.target) }

\* C3 as amended: an event fired from a descendant of the bound node invokes
\* the callback of a delegated binding exactly once when the target or one
\* of its ancestors below the bound node passes SelectorMatcher.test for S
\* (also when several do), and not at all when none does.
C3_DelegatedOncePerEvent ==
    \A h \in AllBindings(wrappers) :
        DelegatedFired(h[1], h[2]) =>
            Count(last.invoked, h) =
                IF \E n \in BelowBound(h[1]) :
                      SelectorMatcher_test(n,
                          wrappers[h[1]].events[h[2]].selector.sel)
                THEN 1 ELSE 0

\* C3 witness: a delegated callback was invoked once by an event whose
\* target and whose parent both match S.
C3_Witness ==
    \E h \in AllBindings(wrappers) :
        /\ DelegatedFired(h[1], h[2])
        /\ Count(last.invoked, h) = 1
        /\ Cardinality({ n \in BelowBound(h[1]) :
              SelectorMatcher_test(n,
                  wrappers[h[1]].events[h[2]].selector.sel) }) >= 2

\* C3 as claimed: the callback of a delegated binding is invoked once when
\* the event's target matches S and not at all when the target does not.
C3_TargetAloneDecides ==
    \A h \in AllBindings(wrappers) :
        DelegatedFired(h[1], h[2]) =>
            Count(last.invoked, h) =
                IF SelectorMatcher_test(last.target,
                       wrappers[h[1]].events[h[2]].selector.sel)
                THEN 1 ELSE 0

\* C9: on called with invalid arguments raises the argument error of on and
\* leaves no binding record and no host listener behind.
C9_OnRejectsInvalidArguments ==
    (last.op = "on" /\ ~last.valid) =>
        /\ last.raised = makeError("on", "DOMElement")
        /\ last.added = 0
        /\ last.attached = 0


(***************************************************************************)
(* get and set.  A name argument is kept as the names name.split(" ")      *)
(* yields; a value is "v1", "v2", null or a function.                      *)
(***************************************************************************)
JsNull == "<null>"
TransformFn == "<function>"
HostObject == "<object>"

\* the keys the protection loop runs over
StructuralKeys ==
    <<"children", "childNodes", "elements", "parentNode",
      "firstElementChild", "lastElementChild", "nextElementSibling",
      "previousElementSibling">>

\* key.replace("Element", "")
ReplaceElement(key) ==
    CASE key = "firstElementChild" -> "firstChild"
      [] key = "lastElementChild" -> "lastChild"
      [] key = "nextElementSibling" -> "nextSibling"
      [] key = "previousElementSibling" -> "previousSibling"
      [] OTHER -> key

\* propHooks without the names key.replace("Element", "") yields
propHooks_KeysOnly(name) ==
    IF \E i \in 1..Len(StructuralKeys) : name = StructuralKeys[i]
    THEN "throwIllegalAccess"
    ELSE "none"

\* propHooks[name]: the hook of a name, for get and for set alike
propHooks(name) ==
    IF \E i \in 1..Len(StructuralKeys) :
          \/ name = StructuralKeys[i]
          \/ name = ReplaceElement(StructuralKeys[i])
    THEN "throwIllegalAccess"
    ELSE "none"

\* the name arguments: a string (the names it splits into), a mapping (its
\* keys in order, each with its value), null, and a number
StringName(names) == [t |-> "string", names |-> names, pairs |-> <<>>]
ObjectName(pairs) == [t |-> "object", names |-> <<>>, pairs |-> pairs]
NullName == [t |-> "null", names |-> <<>>, pairs |-> <<>>]
NumberName == [t |-> "number", names |-> <<>>, pairs |-> <<>>]

\* name in el: title and the structural properties are properties of every
\* element; a string holding several names is a property of none
InEl(names) ==
    /\ Len(names) = 1
    /\ names[1] = "title" \/
       \E i \in 1..Len(StructuralKeys) :
          names[1] \in {StructuralKeys[i], ReplaceElement(StructuralKeys[i])}

\* el.getAttribute(name)
getAttribute(at, names) ==
    IF Len(names) = 1 /\ names[1] \in AttrNames /\ at[names[1]] # Absent
    THEN at[names[1]]
    ELSE JsNull

\* el[name]: title reflects the attribute, a structural property holds a
\* host object, anything else is undefined
ElProp(at, names) ==
    IF ~InEl(names) THEN ""
    ELSE IF names[1] = "title"
         THEN IF at["title"] = Absent THEN "" ELSE at["title"]
         ELSE HostObject

\* DOMElement.prototype.get on an element with the attributes at
get(at, name) ==
    IF name.t # "string"
    THEN [raised |-> makeError("get", "DOMElement"), value |-> JsNull]
    ELSE IF Len(name.names) = 1
            /\ propHooks(name.names[1]) = "throwIllegalAccess"
    THEN [raised |-> makeError("get", "DOMElement"), value |-> JsNull]
    ELSE [raised |-> NoError,
          value |-> IF ElProp(at, name.names) # ""
                    THEN ElProp(at, name.names)
                    ELSE getAttribute(at, name.names)]

\* value.call(this, current) for the function value of the model
CallTransform(current) == IF current = "v1" THEN "v2" ELSE "v1"

\* el.removeAttribute(name)
removeAttribute(at, n) ==
    IF n \in AttrNames THEN [at EXCEPT ![n] = Absent] ELSE at

\* el.setAttribute(name, value)
setAttribute(at, n, value) ==
    IF n \in AttrNames THEN [at EXCEPT ![n] = value] ELSE at

\* el[name] = value: title writes the attribute through, the structural
\* properties are read-only and the assignment does nothing
AssignProp(at, n, value) ==
    IF n = "title" THEN [at EXCEPT !["title"] = value] ELSE at

\* the body with the test name in el ahead of the test value === null
SetName_AssignFirst(at, n, value) ==
    IF propHooks(n) = "throwIllegalAccess"
    THEN [raised |-> makeError("get", "DOMElement"), at |-> at]
    ELSE IF InEl(<<n>>)
    THEN [raised |-> NoError, at |-> AssignProp(at, n, value)]
    ELSE IF value = JsNull
    THEN [raised |-> NoError, at |-> removeAttribute(at, n)]
    ELSE [raised |-> NoError, at |-> setAttribute(at, n, value)]

\* the body run for one name of the list: the hook, removeAttribute,
\* assignment to the property, setAttribute
SetName(at, n, value) ==
    IF propHooks(n) = "throwIllegalAccess"
    THEN [raised |-> makeError("get", "DOMElement"), at |-> at]
    ELSE IF value = JsNull
    THEN [raised |-> NoError, at |-> removeAttribute(at, n)]
    ELSE IF InEl(<<n>>)
    THEN [raised |-> NoError, at |-> AssignProp(at, n, value)]
    ELSE [raised |-> NoError, at |-> setAttribute(at, n, value)]

RECURSIVE SetNames(_, _, _)
\* _.forEach(name.split(" "), ...): the names in turn, up to the first throw
SetNames(at, names, value) ==
    IF names = <<>> THEN [raised |-> NoError, at |-> at]
    ELSE LET r == SetName(at, Head(names), value)
         IN  IF r.raised # NoError THEN r
             ELSE SetNames(r.at, Tail(names), value)

\* set with a string name: a function value is first called with get(name)
SetString(at, names, value) ==
    IF value = TransformFn
    THEN LET g == get(at, StringName(names))
         IN  IF g.raised # NoError THEN [raised |-> g.raised, at |-> at]
             ELSE SetNames(at, names, CallTransform(g.value))
    ELSE SetNames(at, names, value)

RECURSIVE SetPairs(_, _)
\* _.forOwn(name, key => this.set(key, name[key])), up to the first throw
SetPairs(at, pairs) ==
    IF pairs = <<>> THEN [raised |-> NoError, at |-> at]
    ELSE LET r == SetString(at, Head(pairs).key, Head(pairs).value)
         IN  IF r.raised # NoError THEN r
             ELSE SetPairs(r.at, Tail(pairs))

\* DOMElement.prototype.set on an element with the attributes at
set(at, name, value) ==
    CASE name.t = "string" -> SetString(at, name.names, value)
      [] name.t = "object" -> SetPairs(at, name.pairs)
      [] name.t = "null" -> [raised |-> TypeError, at |-> at]
      [] OTHER -> [raised |-> makeError("set", "DOMElement"), at |-> at]

RECURSIVE KeysOf(_)
\* the names of the keys of a mapping, in the order set goes through them
KeysOf(pairs) ==
    IF pairs = <<>> THEN <<>> ELSE Head(pairs).key \o KeysOf(Tail(pairs))

\* the names a name argument holds, in the order set goes through them
NamesOf(name) == IF name.t = "object" THEN KeysOf(name.pairs) ELSE name.names

\* wrapper.get(name)
Get(w, name) ==
    /\ wrappers[w].ctor = "DOMElement"
    /\ last' = [op |-> "get", w |-> w, t |-> name.t, names |-> NamesOf(name),
                fn |-> FALSE,
                raised |-> get(attrs[wrappers[w].node], name).raised,
                value |-> get(attrs[wrappers[w].node], name).value,
                changed |-> FALSE]
    /\ UNCHANGED <<hostVars, readyVars, propVars, watchVars, children, idAttr, node_dom,
                   wrappers, chain, eventVars>>

\* wrapper.set(name, value)
Set(w, name, value) ==
    /\ wrappers[w].ctor = "DOMElement"
    /\ LET el == wrappers[w].node
           r == set(attrs[el], name, value)
       IN  /\ attrs' = [attrs EXCEPT ![el] = r.at]
           /\ last' = [op |-> "set", w |-> w, t |-> name.t,
                       names |-> NamesOf(name),
                       fn |-> \/ name.t = "string" /\ value = TransformFn
                              \/ \E i \in 1..Len(name.pairs) :
                                    name.pairs[i].value = TransformFn,
                       raised |-> r.raised,
                       value |-> JsNull,
                       arg |-> [name |-> name, value |-> value],
                       changed |-> r.at # attrs[el]]
    /\ UNCHANGED <<hostVars, readyVars, watchVars, style, children, idAttr,
                   node_dom, wrappers, chain, eventVars>>

(***************************************************************************)
(* SpecProps: get and set on the elements of a page.                       *)
(***************************************************************************)
\* at most this many names in a name list and keys in a mapping
MaxNames == 2

\* every name with a hook, and the two names without
HookedNames ==
    { StructuralKeys[i] : i \in 1..Len(StructuralKeys) } \cup
    { ReplaceElement(StructuralKeys[i]) : i \in 1..Len(StructuralKeys) }

SingleNames == HookedNames \cup AttrNames

\* the names lists and mappings of several names are made of
ListNames == {"title", "data-x", "children", "firstChild"}

RECURSIVE SeqsOver(_, _)
\* the sequences over S of length 1..n
SeqsOver(S, n) ==
    IF n = 0 THEN {}
    ELSE { <<x>> : x \in S } \cup
         { <<x>> \o t : x \in S, t \in SeqsOver(S, n - 1) }

NameLists ==
    { <<x>> : x \in SingleNames } \cup
    { l \in SeqsOver(ListNames, MaxNames) : Len(l) > 1 }

SetValues == {"v1", JsNull, TransformFn}

\* mappings: one key with any value, or several single-name keys set to "v1"
\* with a function value for the last
Mappings ==
    { ObjectName(<<[key |-> l, value |-> v]>>) :
        l \in NameLists, v \in SetValues } \cup
    { ObjectName([i \in 1..Len(l) |->
                     [key |-> <<l[i]>>,
                      value |-> IF i = Len(l) THEN v ELSE "v1"]]) :
        l \in { k \in SeqsOver(ListNames, MaxNames) : Len(k) > 1 },
        v \in {"v1", TransformFn} }

\* DOM and a wrapper of the first element below <html>
PropsWrappers ==
    <<NewWrapper("DOMNode", Document), NewWrapper("DOMElement", htmlEl + 1)>>

InitSpecProps ==
    /\ InitEvents
    /\ InitWatch
    /\ InitReady
    /\ InitStyle
    /\ node_dom = [n \in Nodes |-> 0]
    /\ wrappers = PropsWrappers
    /\ chain = NoChain
    /\ last = [op |-> "init", raised |-> NoError]
    /\ isW3Compliant = TRUE
    /\ isIECompliant = FALSE
    /\ focusinSupported = TRUE
    /\ children = ChainTree
    /\ InitTags
    /\ InitNames
    /\ idAttr = [e \in Elements |-> Absent]
    /\ className = [e \in Elements |-> <<>>]
    /\ attrs \in [Elements -> [AttrNames -> {Absent, "v1"}]]
    /\ \A e \in Elements \ {htmlEl + 1} :
          attrs[e] = [a \in AttrNames |-> Absent]

GetStep ==
    \E w \in 1..Len(wrappers),
       name \in { StringName(l) : l \in NameLists } \cup {NumberName} :
        Get(w, name)

SetStep ==
    \E w \in 1..Len(wrappers) :
        \/ \E l \in NameLists, v \in SetValues : Set(w, StringName(l), v)
        \/ \E m \in Mappings \cup {NullName, NumberName} : Set(w, m, "v1")

NextProps == GetStep \/ SetStep

SpecProps == InitSpecProps /\ [][NextProps]_vars

\* the names the claim lists as write-protected
WriteProtected ==
    {"children", "childNodes", "elements", "parentNode", "firstElementChild",
     "lastElementChild", "nextElementSibling", "previousElementSibling",
     "firstChild", "lastChild", "nextSibling", "previousSibling"}

startNames == <<"animationstart", "oAnimationStart", "webkitAnimationStart">>

\* "DOM" + new Date().getTime(): one name per value of the clock
AnimationNameAt(time) == time

NoName == -1

\* "@keyframes <name> {from ... to ...}"
KeyframesRule(name) == [keyframes |-> name, selector |-> NoSel, names |-> <<>>]

\* "<selector> {animation-duration: 0.001s; animation-name: <names> !important}"
AnimationRule(selector, names) ==
    [keyframes |-> NoName, selector |-> selector, names |-> names]

\* the specificity of a compound selector, ids before classes and
\* attributes before tags
Specificity(sel) ==
    (IF sel.id = "" THEN 0 ELSE 100) + (IF sel.cls = "" THEN 0 ELSE 10)
    + (IF sel.attr = "" THEN 0 ELSE 10) + (IF sel.tag = "" THEN 0 ELSE 1)

\* the animation rules of a sheet that apply to element n
RulesFor(sheet, n) ==
    { i \in 1..Len(sheet) :
        sheet[i].keyframes = NoName /\ HostMatches(n, sheet[i].selector) }

\* the cascade: of the rules that apply, all !important, the most specific
\* one wins, and of several of those the last
WinningRule(sheet, n) ==
    CHOOSE i \in RulesFor(sheet, n) :
        \A j \in RulesFor(sheet, n) :
            \/ Specificity(sheet[j].selector) < Specificity(sheet[i].selector)
            \/ /\ Specificity(sheet[j].selector) = Specificity(sheet[i].selector)
               /\ j <= i

\* the animations element n has: those its animation-name lists, when n is
\* in the document
AnimationsOf(sheet, ch, n) ==
    IF InDocument(ch, n) /\ RulesFor(sheet, n) # {}
    THEN { sheet[WinningRule(sheet, n)].names[i] :
             i \in 1..Len(sheet[WinningRule(sheet, n)].names) }
    ELSE {}

\* the host after a change of the sheet or of the tree: an animation an
\* element has now and had not before starts, and its start is sent as one
\* event under every name the host uses; an animation an element has no
\* more is cancelled, its start is not sent
Restyle(sheet, ch) ==
    LET now == [e \in Elements |-> AnimationsOf(sheet, ch, e)]
    IN  [running |-> now,
         pending |->
            { p \in pending : p.animationName \in now[p.target] } \cup
            UNION { { [target |-> e, animationName |-> a, name |-> nm] :
                        a \in now[e] \ running[e], nm \in hostStartNames } :
                    e \in Elements }]

\* a DOM.watch call may still be made for this many calls
MaxWatches == 2

\* the clock is read up to this time
MaxClock == 1

\* invocations of one callback for one node are counted up to this many
MaxInvocations == 2

\* DOM._watchers[selector], the empty list when there is none
WatchersOf(selector) ==
    IF selector \in DOMAIN DOM_watchers THEN DOM_watchers[selector] ELSE <<>>

\* allAnimationNames: the names DOM._watchers holds for the selector, with
\* the new name added unless they are that one name
AllAnimationNames(selector, animationName) ==
    IF WatchersOf(selector) = <<>> \/ WatchersOf(selector) = <<animationName>>
    THEN <<animationName>>
    ELSE Append(WatchersOf(selector), animationName)

\* DOM.importStyles(selector, styles) with a string selector: one rule more
\* at the end of the sheet
importStyles(sheet, rule) == Append(sheet, rule)

\* the elements of the document a selector matches
MatchingInDocument(ch, selector) ==
    { e \in Elements : InDocument(ch, e) /\ HostMatches(e, selector) }

\* DOM.watch(selector, callback), with new Date().getTime() returning time
Watch(selector, callback, time) ==
    /\ Len(watchers) < MaxWatches
    /\ time >= clock
    /\ clock' = time
    /\ LET animationName == AnimationNameAt(time)
           all == AllAnimationNames(selector, animationName)
           sheet == importStyles(
                        importStyles(styleSheet, KeyframesRule(animationName)),
                        AnimationRule(selector, all))
       IN  /\ styleSheet' = sheet
           /\ DOM_watchers' =
                 [s \in DOMAIN DOM_watchers \cup {selector} |->
                     IF s = selector THEN all ELSE DOM_watchers[s]]
           /\ watchers' = Append(watchers,
                 [selector |-> selector, animationName |-> animationName,
                  callback |-> callback,
                  count |-> [e \in Elements |-> 0],
                  present |-> MatchingInDocument(children, selector),
                  inserted |-> {}])
           /\ running' = Restyle(sheet, children).running
           /\ pending' = Restyle(sheet, children).pending
    /\ last' = [op |-> "watch", raised |-> NoError]
    /\ UNCHANGED <<hostVars, readyVars, propVars, hostStartNames, cancelBubbling,
                   children, idAttr, node_dom, wrappers, chain, eventVars>>

\* a script appends the detached element n, with what is below it, to an
\* element of the document
Insert(n, parent) ==
    /\ n # htmlEl
    /\ parentNode(children, n) = NoNode
    /\ InDocument(children, parent)
    /\ LET ch == [children EXCEPT ![parent] = Append(@, n)]
           subtree == { Preorder(children, n)[i] :
                          i \in 1..Len(Preorder(children, n)) }
       IN  /\ children' = ch
           /\ running' = Restyle(styleSheet, ch).running
           /\ pending' = Restyle(styleSheet, ch).pending
           /\ watchers' =
                 [k \in 1..Len(watchers) |->
                    [watchers[k] EXCEPT !.inserted = @ \cup
                        { e \in subtree :
                            HostMatches(e, watchers[k].selector) }]]
    /\ UNCHANGED <<hostVars, readyVars, last, propVars, hostStartNames, clock, styleSheet,
                   DOM_watchers, cancelBubbling, idAttr, node_dom, wrappers,
                   chain, eventVars>>

\* a script removes the element n, with what is below it, from the document
Remove(n) ==
    /\ n # htmlEl
    /\ InDocument(children, n)
    /\ LET ch == [p \in Nodes |-> RemoveFromSeq(children[p], n)]
           subtree == { Preorder(children, n)[i] :
                          i \in 1..Len(Preorder(children, n)) }
       IN  /\ children' = ch
           /\ running' = Restyle(styleSheet, ch).running
           /\ pending' = Restyle(styleSheet, ch).pending
           /\ watchers' =
                 [k \in 1..Len(watchers) |->
                    [watchers[k] EXCEPT !.present = @ \ subtree,
                                        !.inserted = @ \ subtree]]
    /\ UNCHANGED <<hostVars, readyVars, last, propVars, hostStartNames, clock, styleSheet,
                   DOM_watchers, cancelBubbling, idAttr, node_dom, wrappers,
                   chain, eventVars>>

\* cancelBubbling of watch call k on event e: whether it calls
\* e.stopPropagation()
cancelBubblingStops(k, e) == e.animationName = watchers[k].animationName

\* whether the listeners of element m stop the propagation of event e
StopsAt(m, e) ==
    \E c \in cancelBubbling[m] :
        c.name = e.name /\ cancelBubblingStops(c.k, e)

\* the bubbling of event e from its target: the first element on the way up
\* whose listeners stop it, NoNode when it gets through
StoppedAt(e) ==
    LET path == PathToRoot(children, e.target)
    IN  IF \E i \in 1..Len(path) : path[i] # Document /\ StopsAt(path[i], e)
        THEN path[CHOOSE i \in 1..Len(path) :
                    /\ path[i] # Document /\ StopsAt(path[i], e)
                    /\ \A j \in 1..(i - 1) : ~StopsAt(path[j], e)]
        ELSE NoNode

\* the watch calls whose document listener for the name of e calls the
\* callback: e has come up to the document and carries their animation name
Notified(e) ==
    IF /\ InDocument(children, e.target)
       /\ StoppedAt(e) = NoNode
       /\ InSeq(e.name, startNames)
    THEN { k \in 1..Len(watchers) :
             e.animationName = watchers[k].animationName }
    ELSE {}

\* the host dispatches the pending animation-start event e: every document
\* listener it reaches calls callback(DOMElement(el)) and then adds
\* cancelBubbling to el as a listener for the name of the event
AnimationStart(e) ==
    /\ e \in pending
    /\ pending' = pending \ {e}
    /\ watchers' =
          [k \in 1..Len(watchers) |->
             IF k \in Notified(e)
             THEN [watchers[k] EXCEPT !.count[e.target] =
                      IF @ < MaxInvocations THEN @ + 1 ELSE @]
             ELSE watchers[k]]
    /\ cancelBubbling' =
          [cancelBubbling EXCEPT ![e.target] =
              @ \cup { [name |-> e.name, k |-> k] : k \in Notified(e) }]
    /\ UNCHANGED <<hostVars, readyVars, last, propVars, hostStartNames, clock, styleSheet,
                   running, DOM_watchers, children, idAttr, node_dom,
                   wrappers, chain, eventVars>>

(***************************************************************************)
(* SpecWatch: DOM.watch calls, insertions and removals by scripts, and the *)
(* animation-start events of the host.                                     *)
(***************************************************************************)
\* document > html, and detached 2 > 3 > ...
BranchDetachedTree ==
    [n \in Nodes |-> IF n = Document THEN <<htmlEl>>
                     ELSE IF n = htmlEl \/ n = NumElements THEN <<>>
                     ELSE <<n + 1>>]

\* the selectors watched: a class and a tag
WatchSelectors == { Sel("", "", "", "a"), Sel("div", "", "", "") }

\* the hosts: the start of an animation is sent under the standard name, or
\* under the standard and the prefixed name both
InitSpecWatch ==
    /\ InitLibrary
    /\ InitEvents
    /\ InitProps
    /\ InitReady
    /\ isW3Compliant = TRUE
    /\ isIECompliant = FALSE
    /\ focusinSupported = TRUE
    /\ children \in {ChainTree, BranchDetachedTree}
    /\ InitTags
    /\ InitNames
    /\ idAttr = [e \in Elements |-> Absent]
    /\ className \in { f \in [Elements -> {<<>>, <<"a">>}] :
                        f[htmlEl] = <<>> /\ f[htmlEl + 1] = <<"a">> }
    /\ hostStartNames \in
          { {"animationstart"}, {"animationstart", "webkitAnimationStart"} }
    /\ clock = 0
    /\ styleSheet = <<>>
    /\ running = [e \in Elements |-> {}]
    /\ pending = {}
    /\ DOM_watchers = <<>>
    /\ watchers = <<>>
    /\ cancelBubbling = [e \in Elements |-> {}]

WatchStep ==
    \E selector \in WatchSelectors, time \in 0..MaxClock :
        Watch(selector, "cb1", time)

InsertStep == \E n \in Elements, parent \in Elements : Insert(n, parent)

RemoveStep == \E n \in Elements : Remove(n)

AnimationStartStep == \E e \in pending : AnimationStart(e)

NextWatch ==
    \/ WatchStep
    \/ InsertStep
    \/ RemoveStep
    \/ AnimationStartStep

SpecWatch == InitSpecWatch /\ [][NextWatch]_vars

\* no animation-start event for the animation of watch call k is pending
Settled(k) ==
    \A e \in pending : e.animationName # watchers[k].animationName

\* C4: once the events a watch call set off are dispatched, its callback
\* has been invoked exactly once for every node that matched the selector
\* in the document when the call was made (and was in the document since).
C4_PresentNodesDelivered ==
    \A k \in 1..Len(watchers) :
        Settled(k) =>
            \A n \in watchers[k].present : watchers[k].count[n] = 1

\* C5: once the events an insertion set off are dispatched, the callback of
\* every earlier watch call has been invoked exactly once for every
\* inserted node that matches its selector (and was in the document since).
C5_InsertedNodesDelivered ==
    \A k \in 1..Len(watchers) :
        Settled(k) =>
            \A n \in watchers[k].inserted : watchers[k].count[n] = 1

\* C6: the callback of a watch call is never invoked twice for one node.
C6_NeverTwiceForOneNode ==
    \A k \in 1..Len(watchers) :
        \A n \in Elements : watchers[k].count[n] <= 1


(***************************************************************************)
(* DOM.importStyles, and SpecArgs: the calls of get, set and importStyles  *)
(* with arguments of every shape.                                          *)
(***************************************************************************)
\* the style sheet holds at most this many rules
MaxRules == 2

\* "<selector> {<ruleText>}"
StyleRule(selector) == [keyframes |-> NoName, selector |-> selector, names |-> <<>>]

\* process(selector, styles): the sheet with the rule inserted, or the
\* argument error when styles is neither an object nor a string
process(sheet, selector, styles) ==
    IF styles \in {"object", "string"}
    THEN [raised |-> NoError, sheet |-> importStyles(sheet, StyleRule(selector))]
    ELSE [raised |-> makeError("importStyles", "DOM"), sheet |-> sheet]

RECURSIVE ProcessRules(_, _)
\* _.forEach(_.slice(arguments), rule => process(key, rule[key])), up to
\* the first throw
ProcessRules(sheet, rules) ==
    IF rules = <<>> THEN [raised |-> NoError, sheet |-> sheet]
    ELSE LET r == process(sheet, Head(rules).selector, Head(rules).styles)
         IN  IF r.raised # NoError THEN r
             ELSE ProcessRules(r.sheet, Tail(rules))

\* the function DOM.importStyles is: args.t is typeof selector, args.rules
\* the selector/styles pair of a string call or the rule arguments of a
\* call with objects
ImportStylesResult(sheet, args) ==
    CASE args.t = "string" ->
            process(sheet, args.rules[1].selector, args.rules[1].styles)
      [] args.t = "object" -> ProcessRules(sheet, args.rules)
      [] OTHER -> [raised |-> makeError("importStyles", "DOM"), sheet |-> sheet]

\* DOM.importStyles(selector, styles) / DOM.importStyles(rule, rule, ...)
ImportStyles(args) ==
    /\ Len(ImportStylesResult(styleSheet, args).sheet) <= MaxRules
    /\ styleSheet' = ImportStylesResult(styleSheet, args).sheet
    /\ last' = [op |-> "importStyles", w |-> 1, t |-> args.t, names |-> <<>>,
                fn |-> FALSE,
                raised |-> ImportStylesResult(styleSheet, args).raised,
                value |-> JsNull,
                changed |-> ImportStylesResult(styleSheet, args).sheet
                               # styleSheet]
    /\ UNCHANGED <<hostVars, readyVars, propVars, hostStartNames, clock, running, pending,
                   DOM_watchers, watchers, cancelBubbling, children, idAttr,
                   node_dom, wrappers, chain, eventVars>>

\* the values styles is given as: a mapping, a string, a number
StylesValues == {"object", "string", "number"}

\* the rules of the calls: one or two selectors, each with its styles
RuleLists ==
    { <<[selector |-> Sel("", "", "", "a"), styles |-> v]>> :
        v \in StylesValues } \cup
    { <<[selector |-> Sel("", "", "", "a"), styles |-> v],
        [selector |-> Sel("div", "", "", ""), styles |-> u]>> :
        v \in StylesValues, u \in StylesValues }

ImportStylesArgs ==
    { [t |-> "string", rules |-> l] : l \in { k \in RuleLists : Len(k) = 1 } }
    \cup { [t |-> "object", rules |-> l] : l \in RuleLists }
    \cup { [t |-> "number", rules |-> <<>>] }

ImportStylesStep == \E args \in ImportStylesArgs : ImportStyles(args)

NextArgs == GetStep \/ SetStep \/ ImportStylesStep

SpecArgs == InitSpecProps /\ [][NextArgs]_vars

\* C11: when set or importStyles raises its argument error, nothing was
\* changed: the element's attributes and the style sheet are what they
\* were before the call.
C11_ArgumentErrorBeforeMutation ==
    (last.op \in {"set", "importStyles"} /\ last.raised[1] = "Error")
        => ~last.changed


(***************************************************************************)
(* Claims about get and set.                                               *)
(***************************************************************************)
\* the attribute of the name list names is present on an element
HasAttribute(at, names) ==
    Len(names) = 1 /\ names[1] \in AttrNames /\ at[names[1]] # Absent

\* C12: a get that returns gives the property value when the property is
\* present and non-empty, otherwise the attribute value when the attribute
\* is present, otherwise undefined.
C12_GetResolution ==
    (last.op = "get" /\ last.raised = NoError) =>
        LET at == attrs[wrappers[last.w].node]
        IN  last.value =
               IF ElProp(at, last.names) # "" THEN ElProp(at, last.names)
               ELSE IF HasAttribute(at, last.names)
                    THEN at[last.names[1]]
                    ELSE Undefined


\* one call set(n, value) with a single name and a value that is no function,
\* as the claim resolves it
ResolveOne(at, n, value) ==
    IF propHooks(n) # "none"
    THEN [raised |-> makeError("get", "DOMElement"), at |-> at]
    ELSE [raised |-> NoError,
          at |-> IF value = JsNull THEN removeAttribute(at, n)
                 ELSE IF InEl(<<n>>) THEN AssignProp(at, n, value)
                 ELSE setAttribute(at, n, value)]

RECURSIVE ResolveList(_, _, _)
\* the names of a list resolved one after the other with the same value
ResolveList(at, names, value) ==
    IF names = <<>> THEN [raised |-> NoError, at |-> at]
    ELSE LET r == ResolveOne(at, Head(names), value)
         IN  IF r.raised # NoError THEN r
             ELSE ResolveList(r.at, Tail(names), value)

\* set(names, value) with a string name: a function value is replaced by its
\* result on get(names)
ResolveString(at, names, value) ==
    IF value # TransformFn THEN ResolveList(at, names, value)
    ELSE IF get(at, StringName(names)).raised # NoError
    THEN [raised |-> get(at, StringName(names)).raised, at |-> at]
    ELSE ResolveList(at, names,
                     CallTransform(get(at, StringName(names)).value))

RECURSIVE ResolvePairs(_, _)
\* the pairs of a mapping resolved one after the other
ResolvePairs(at, pairs) ==
    IF pairs = <<>> THEN [raised |-> NoError, at |-> at]
    ELSE LET r == ResolveString(at, Head(pairs).key, Head(pairs).value)
         IN  IF r.raised # NoError THEN r
             ELSE ResolvePairs(r.at, Tail(pairs))

\* C13: every set with a string or a mapping leaves the element as resolving
\* each name in the order hook, removal for null, assignment to a live
\* property, setAttribute leaves it: a list applies the same value to its
\* names in sequence, a mapping applies its pairs in sequence, and a function
\* value is replaced by its result on get(name).
C13_SetResolution ==
    [][(last'.op = "set" /\ last'.t \in {"string", "object"}) =>
          LET el == wrappers[last'.w].node
              r == IF last'.t = "string"
                   THEN ResolveString(attrs[el], last'.arg.name.names,
                                      last'.arg.value)
                   ELSE ResolvePairs(attrs[el], last'.arg.name.pairs)
          IN  /\ attrs'[el] = r.at
              /\ last'.raised = r.raised]_vars

\* a set with a function value and a list of two names has changed the element
C13_Witness ==
    /\ last.op = "set"
    /\ last.t = "string"
    /\ last.fn
    /\ Len(last.names) = 2
    /\ last.raised = NoError
    /\ last.changed


(***************************************************************************)
(* getStyle and setStyle.  A value is a number or a string, kept with the  *)
(* string the host turns it into; a style object stores strings.           *)
(***************************************************************************)
JsNumberValue(str) == [t |-> "number", s |-> str]
JsStringValue(str) == [t |-> "string", s |-> str]

\* the names of the second loop over cssHooks
LengthNames == {"width", "height", "padding", "margin"}

\* the style property the hook of the first loop reads and writes for a name:
\* the one of the last property of props that goes by this name and is not
\* its own style property; "" when there is none
HookProp(name) ==
    LET hits == { j \in 1..Len(props) :
                    /\ unprefixedName(props[j]) = name
                    /\ stylePropName(props[j]) # props[j] }
    IN  IF hits = {} THEN ""
        ELSE stylePropName(props[CHOOSE j \in hits : \A k \in hits : k <= j])

\* cssHooks without the loop over width, height, padding and margin
cssHooks_NoUnits(name) ==
    [get |-> HookProp(name), set |-> HookProp(name)]

\* cssHooks[name]: the style property its get reads ("" for no get) and what
\* its set does ("px": append the unit to a number, a style property: write
\* that property, "": no set)
cssHooks(name) ==
    IF name \in LengthNames THEN [get |-> "", set |-> "px"]
    ELSE [get |-> HookProp(name), set |-> HookProp(name)]

\* style[key]
ReadStyle(st, key) == IF key \in StyleProps THEN st[key] ELSE ""

\* style[key] = value
WriteStyle(st, key, str) ==
    IF key \in StyleProps THEN [st EXCEPT ![key] = str] ELSE st

\* the value a property has when no rule sets it
InitialValue(q) ==
    CASE q = "width" -> "auto"
      [] q = "margin" -> "0px"
      [] q = "color" -> "rgb(0, 0, 0)"
      [] q = "fontSize" -> "16px"
      [] OTHER -> "none"

\* window.getComputedStyle(node) for a node with the inline style st
getComputedStyle(st) ==
    [q \in StyleProps |-> IF st[q] # "" THEN st[q] ELSE InitialValue(q)]

\* the name arguments of getStyle and setStyle
StyleName(n) == [t |-> "string", name |-> n, pairs |-> <<>>]
StyleMap(pairs) == [t |-> "object", name |-> "", pairs |-> pairs]
StyleNumber == [t |-> "number", name |-> "", pairs |-> <<>>]

\* DOMElement.prototype.getStyle on a node with the inline style st: the
\* result, and whether the computed style was read
getStyle(st, name) ==
    IF name.t # "string"
    THEN [raised |-> makeError("getStyle", "DOMElement"), value |-> "",
          computed |-> FALSE]
    ELSE LET hook == cssHooks(name.name).get
             key == IF hook # "" THEN hook ELSE name.name
             result == ReadStyle(st, key)
         IN  IF result # ""
             THEN [raised |-> NoError, value |-> result, computed |-> FALSE]
             ELSE [raised |-> NoError,
                   value |-> ReadStyle(getComputedStyle(st), key),
                   computed |-> TRUE]

\* setStyle with a string name
SetStyleString(st, n, value) ==
    LET hook == cssHooks(n).set
    IN  IF hook = "px"
        THEN WriteStyle(st, n, IF value.t = "number" THEN value.s \o "px"
                               ELSE value.s)
        ELSE IF hook # "" THEN WriteStyle(st, hook, value.s)
        ELSE WriteStyle(st, n, value.s)

RECURSIVE SetStylePairs(_, _)
\* _.forOwn(name, key => this.setStyle(key, name[key]))
SetStylePairs(st, pairs) ==
    IF pairs = <<>> THEN st
    ELSE SetStylePairs(SetStyleString(st, Head(pairs).key, Head(pairs).value),
                       Tail(pairs))

\* DOMElement.prototype.setStyle on a node with the inline style st
setStyle(st, name, value) ==
    CASE name.t = "string" ->
            [raised |-> NoError, st |-> SetStyleString(st, name.name, value)]
      [] name.t = "object" ->
            [raised |-> NoError, st |-> SetStylePairs(st, name.pairs)]
      [] OTHER -> [raised |-> makeError("setStyle", "DOMElement"), st |-> st]

\* wrapper.getStyle(name)
GetStyle(w, name) ==
    /\ wrappers[w].ctor = "DOMElement"
    /\ LET r == getStyle(style[wrappers[w].node], name)
       IN  last' = [op |-> "getStyle", w |-> w, t |-> name.t,
                    name |-> name.name, raised |-> r.raised,
                    value |-> r.value, computed |-> r.computed]
    /\ UNCHANGED <<hostVars, readyVars, propVars, watchVars, children, idAttr,
                   node_dom, wrappers, chain, eventVars>>

\* wrapper.setStyle(name, value)
SetStyle(w, name, value) ==
    /\ wrappers[w].ctor = "DOMElement"
    /\ LET el == wrappers[w].node
           r == setStyle(style[el], name, value)
       IN  /\ style' = [style EXCEPT ![el] = r.st]
           /\ last' = [op |-> "setStyle", w |-> w, t |-> name.t,
                       name |-> name.name, raised |-> r.raised,
                       arg |-> value]
    /\ UNCHANGED <<hostVars, readyVars, watchVars, attrs, children, idAttr,
                   node_dom, wrappers, chain, eventVars>>

(***************************************************************************)
(* SpecStyle: getStyle and setStyle on one element of a page.              *)
(***************************************************************************)
\* the names styles are read and written under
StyleNames == {"width", "color", "font-size", "transform"}

\* a number, two strings and the empty string
StyleValues ==
    {JsNumberValue("5"), JsStringValue("10px"), JsStringValue("red"),
     JsStringValue("")}

\* mappings of one and of two pairs
StyleMaps ==
    { StyleMap(<<[key |-> n, value |-> v]>>) :
        n \in StyleNames, v \in StyleValues } \cup
    { StyleMap(<<[key |-> "width", value |-> v],
                 [key |-> "font-size", value |-> v]>>) : v \in StyleValues }

InitSpecStyle ==
    /\ InitSpecProps
    /\ attrs = [e \in Elements |-> [a \in AttrNames |-> Absent]]

GetStyleStep ==
    \E w \in 1..Len(wrappers),
       name \in { StyleName(n) : n \in StyleNames } \cup {StyleNumber} :
        GetStyle(w, name)

SetStyleStep ==
    \E w \in 1..Len(wrappers) :
        \/ \E n \in StyleNames, v \in StyleValues :
              SetStyle(w, StyleName(n), v)
        \/ \E m \in StyleMaps \cup {StyleNumber} :
              SetStyle(w, m, JsStringValue("red"))

NextStyle == GetStyleStep \/ SetStyleStep

SpecStyle == InitSpecStyle /\ [][NextStyle]_vars

\* the string a value is equivalent to when stored under a name
StoredForm(n, value) ==
    IF n \in {"width", "height", "padding", "margin"} /\ value.t = "number"
    THEN value.s \o "px"
    ELSE value.s

\* C14: a getStyle(name) that directly follows setStyle(name, v) on the same
\* wrapper returns v, with "px" appended when v is a number and the name is
\* width, height, padding or margin; it reads the computed style exactly when
\* the stored value is empty.
C14_StyleRoundTrip ==
    [][(/\ last.op = "setStyle" /\ last.t = "string"
        /\ last'.op = "getStyle" /\ last'.t = "string"
        /\ last'.w = last.w /\ last'.name = last.name) =>
          /\ last'.raised = NoError
          /\ last'.computed = (StoredForm(last.name, last.arg) = "")
          /\ ~last'.computed => last'.value = StoredForm(last.name, last.arg)
      ]_vars

\* getStyle("width") has returned "5px"
C14_Witness ==
    /\ last.op = "getStyle"
    /\ last.name = "width"
    /\ last.value = "5px"
    /\ ~last.computed


(***************************************************************************)
(* Claims about find, findAll and SelectorMatcher.                         *)
(***************************************************************************)
\* C15: a find or findAll leaves the id attribute of every node exactly as it
\* was before the call, an empty-string id attribute included.
C15_FindLeavesIdAttribute ==
    [][last'.op \in {"find", "findAll"} => idAttr' = idAttr]_vars


\* wrapper.matches(selector): new SelectorMatcher(selector).test(this._node)
Matches(w, sel) ==
    /\ wrappers[w].ctor = "DOMElement"
    /\ last' = [op |-> "matches", w |-> w, sel |-> sel, raised |-> NoError,
                value |-> SelectorMatcher_test(wrappers[w].node, sel)]
    /\ UNCHANGED <<hostVars, readyVars, propVars, watchVars, children, idAttr,
                   node_dom, wrappers, chain, eventVars>>

\* selectors of the quick pattern: every part alone, and parts together
QuickSelectors ==
    { Sel("div", "", "", ""), Sel("", "x", "", ""), Sel("", "", "class", ""),
      Sel("", "", "", "a"), Sel("", "", "", "b"), Sel("div", "x", "", "a") }

\* a page whose elements have ids and class attributes with a space or a
\* tab between the class names
InitSpecMatch ==
    /\ InitProps
    /\ InitReady
    /\ InitWatch
    /\ InitEvents
    /\ node_dom = [n \in Nodes |-> 0]
    /\ wrappers = PageWrappers
    /\ chain = NoChain
    /\ last = [op |-> "init", raised |-> NoError]
    /\ isW3Compliant = TRUE
    /\ isIECompliant = FALSE
    /\ focusinSupported = TRUE
    /\ children = ChainTree
    /\ InitTags
    /\ InitNames
    /\ idAttr \in { f \in [Elements -> {Absent, "x"}] : f[htmlEl] = Absent }
    /\ className \in { f \in [Elements -> ClassNames] : f[htmlEl] = <<>> }

MatchesStep ==
    \E w \in 1..Len(wrappers), sel \in QuickSelectors : Matches(w, sel)

NextMatch == MatchesStep

SpecMatch == InitSpecMatch /\ [][NextMatch]_vars

\* C16: for a selector of the quick pattern, matches returns what the host's
\* own selector matching returns for the element.
C16_QuickPathAgreesWithHost ==
    last.op = "matches" =>
        last.value = HostMatches(wrappers[last.w].node, last.sel)


(***************************************************************************)
(* SpecFind: find and findAll on a page whose elements have ids and names, *)
(* from DOM and from a wrapper of the first element below <html>.          *)
(***************************************************************************)
InitSpecFind ==
    /\ InitProps
    /\ InitReady
    /\ InitWatch
    /\ InitEvents
    /\ node_dom = [n \in Nodes |-> 0]
    /\ wrappers = PropsWrappers
    /\ chain = NoChain
    /\ last = [op |-> "init", raised |-> NoError]
    /\ isW3Compliant = TRUE
    /\ isIECompliant = FALSE
    /\ focusinSupported = TRUE
    /\ children \in {ChainTree, StarTree}
    /\ tagName = [e \in Elements |-> IF e = htmlEl THEN "html"
                                     ELSE IF e % 2 = 0 THEN "div" ELSE "span"]
    /\ idAttr \in { f \in [Elements -> {Absent, "x"}] : f[htmlEl] = Absent }
    /\ nameAttr \in { f \in [Elements -> {Absent, "x"}] : f[htmlEl] = Absent }
    /\ className \in { f \in [Elements -> {<<>>, <<"a">>}] : f[htmlEl] = <<>> }

NextFind == FindStep \/ FindAllStep

SpecFind == InitSpecFind /\ [][NextFind]_vars

\* the elements below node the selector matches, in document order
MatchesBelow(node, sel) ==
    SelectSeq(DescendantsOf(children, node), LAMBDA e : HostMatches(e, sel))

\* the host's id lookup returns an element that find rejects
IdLookupRejected(node, m) ==
    /\ getElementById(m) # NoNode
    /\ \/ idAttr[getElementById(m)] # m
       \/ parentNode(children, getElementById(m)) = NoNode
       \/ /\ node # Document
          /\ ~containsElement(children, node, getElementById(m))

\* C17: a find("#id") whose id lookup returns an element that is rejected
\* yields what the generic query yields: the first element below the root
\* that matches the selector, or none.
C17_RejectedIdFallsThrough ==
    (/\ last.op = "find"
     /\ rquickExpr(last.sel)
     /\ last.sel.id # ""
     /\ IdLookupRejected(wrappers[last.w].node, last.sel.id)) =>
        last.node =
            IF MatchesBelow(wrappers[last.w].node, last.sel) = <<>>
            THEN NoNode
            ELSE Head(MatchesBelow(wrappers[last.w].node, last.sel))

\* C18: find and findAll never raise for a string selector: find yields the
\* wrapper of the first match and a null wrapper when nothing matches,
\* findAll yields the wrappers of all matches in document order, none when
\* nothing matches.
C18_FindYieldsMatches ==
    last.op \in {"find", "findAll"} =>
        LET hits == MatchesBelow(wrappers[last.w].node, last.sel)
        IN  /\ last.raised = NoError
            /\ last.op = "find" =>
                  /\ Len(last.ret) = 1
                  /\ wrappers[last.ret[1]].node =
                        IF hits = <<>> THEN NoNode ELSE Head(hits)
            /\ last.op = "findAll" =>
                  /\ Len(last.ret) = Len(hits)
                  /\ \A k \in 1..Len(hits) :
                        wrappers[last.ret[k]].node = hits[k]


(***************************************************************************)
(* DOM.create with markup, and calls on the collection it returns.  The    *)
(* markup is kept as the detached trees sandbox.parse makes of it: tops    *)
(* are the children of the sandbox element.                                *)
(***************************************************************************)
\* the methods of DOMElementCollection.prototype
DOMElementCollectionMethods ==
    {"each", "on", "off", "fire", "setData", "set", "setStyle", "addClass",
     "removeClass", "toggleClass"}

\* DOM.create(content) with a markup string:
\* new DOMElementCollection(sandbox.parse(content))
CreateMarkup(tops) ==
    /\ \A k \in 1..Len(tops) :
          /\ parentNode(children, tops[k]) = NoNode
          /\ ~InDocument(children, tops[k])
    /\ LET res == MapDOMElement(wrappers, tops)
       IN  /\ Len(res.ws) <= MaxWrappers
           /\ wrappers' = res.ws
           /\ chain' = [kind |-> "collection", id |-> 0, len |-> 0]
           /\ last' = [op |-> "create", node |-> NoNode, ret |-> res.ret,
                       raised |-> NoError]
    /\ UNCHANGED <<hostVars, readyVars, propVars, watchVars, children, idAttr,
                   node_dom, eventVars>>

\* a method called on the collection create returned: each(callback) with a
\* callback that changes nothing, or a name the prototype does not have
CollectionCall(op) ==
    /\ chain.kind = "collection"
    /\ chain.len < MaxChain
    /\ last.op \in {"create", "collectioncall"}
    /\ IF op \in DOMElementCollectionMethods
       THEN /\ chain' = [chain EXCEPT !.len = chain.len + 1]
            /\ last' = [op |-> "collectioncall", method |-> op,
                        members |-> IF last.op = "create" THEN last.ret
                                    ELSE last.members,
                        ret |-> <<>>, raised |-> NoError]
       ELSE \* collection[op] is undefined
            /\ chain' = [kind |-> "raised", id |-> 0, len |-> chain.len + 1]
            /\ last' = [op |-> "collectioncall", method |-> op,
                        members |-> IF last.op = "create" THEN last.ret
                                    ELSE last.members,
                        ret |-> <<>>, raised |-> TypeError]
    /\ UNCHANGED <<hostVars, readyVars, propVars, watchVars, children, idAttr,
                   node_dom, wrappers, eventVars>>

\* document > html, and detached 2 with the children 3, ...
ListDetachedTree ==
    [n \in Nodes |-> IF n = Document THEN <<htmlEl>>
                     ELSE IF n = htmlEl + 1
                          THEN [i \in 1..(NumElements - 2) |-> i + 2]
                          ELSE <<>>]

\* the markup strings: one tree, and one element after the other
Markups ==
    { <<e>> : e \in Elements \ {htmlEl} } \cup
    { <<htmlEl + 1, e>> : e \in Elements \ {htmlEl, htmlEl + 1} }

InitSpecCreate ==
    /\ InitLibrary
    /\ InitEvents
    /\ InitProps
    /\ InitReady
    /\ InitWatch
    /\ InitNames
    /\ isW3Compliant = TRUE
    /\ isIECompliant = FALSE
    /\ focusinSupported = TRUE
    /\ children \in {LoneTree, ListDetachedTree, BranchDetachedTree}
    /\ tagName = [e \in Elements |-> IF e = htmlEl THEN "html"
                                     ELSE IF e = htmlEl + 1 THEN "div"
                                     ELSE "span"]
    /\ idAttr = [e \in Elements |-> Absent]
    /\ className \in { f \in [Elements -> {<<>>, <<"a">>}] : f[htmlEl] = <<>> }

CreateMarkupStep == \E tops \in Markups : CreateMarkup(tops)

CollectionCallStep ==
    \E op \in {"each", "find", "findAll"} : CollectionCall(op)

NextCreate == CreateStep \/ CreateMarkupStep \/ CollectionCallStep

SpecCreate == InitSpecCreate /\ [][NextCreate]_vars

\* C19: the collection create(markup) returns can be queried: findAll on it
\* does not raise (and yields the matching elements of the markup).
C19_CreatedMarkupCanBeQueried ==
    (last.op = "collectioncall" /\ last.method \in {"find", "findAll"}) =>
        last.raised = NoError


(***************************************************************************)
(* DOM.ready.  A callback is kept as the index of its registration in      *)
(* invocations; the page goes from loading to interactive to complete.     *)
(***************************************************************************)
\* at most this many callbacks are passed to ready
MaxCallbacks == 3

\* what pageLoaded works on
ReadyState(interval, callbacks, queue) ==
    [scrollIntervalId |-> interval, readyCallbacks |-> callbacks,
     timers |-> queue]

\* pageLoaded without the cleanup readyCallbacks = null
pageLoaded_NoCleanup(st) ==
    IF st.readyCallbacks # NullCallbacks
    THEN ReadyState(0, st.readyCallbacks, st.timers \o st.readyCallbacks)
    ELSE ReadyState(0, st.readyCallbacks, st.timers)

\* pageLoaded going through the callbacks held from the last to the first
pageLoaded_Backwards(st) ==
    IF st.readyCallbacks # NullCallbacks
    THEN ReadyState(0, NullCallbacks,
                    st.timers \o Reverse(st.readyCallbacks))
    ELSE ReadyState(0, st.readyCallbacks, st.timers)

\* pageLoaded: the poll is cleared, every callback held is given to
\* safeExecution, which sets a zero-delay timer for it, and readyCallbacks
\* becomes null
pageLoaded(st) ==
    IF st.readyCallbacks # NullCallbacks
    THEN ReadyState(0, NullCallbacks, st.timers \o st.readyCallbacks)
    ELSE ReadyState(0, st.readyCallbacks, st.timers)

\* the state pageLoaded leaves when called in the current state
AfterPageLoaded ==
    pageLoaded(ReadyState(scrollIntervalId, readyCallbacks, timers))

\* the test made when the library is loaded: the browser event has already
\* occurred
AlreadyLoaded ==
    IF isIECompliant THEN readyState = "complete" ELSE readyState # "loading"

\* DOM.ready(callback); callback is a number, a function that returns or a
\* function that throws
Ready(callback) ==
    /\ Len(invocations) < MaxCallbacks
    /\ IF callback = "number"
       THEN /\ last' = [op |-> "ready", raised |-> makeError("ready", "DOM")]
            /\ UNCHANGED <<readyCallbacks, timers, invocations>>
       ELSE /\ invocations' =
                 Append(invocations,
                        [count |-> 0,
                         late |-> readyCallbacks = NullCallbacks,
                         throws |-> callback = "throws",
                         at |-> 0])
            /\ IF readyCallbacks # NullCallbacks
               THEN /\ readyCallbacks' =
                         Append(readyCallbacks, Len(invocations) + 1)
                    /\ timers' = timers
               ELSE /\ timers' = Append(timers, Len(invocations) + 1)
                    /\ readyCallbacks' = readyCallbacks
            /\ last' = [op |-> "ready", raised |-> NoError]
    /\ UNCHANGED <<hostVars, propVars, watchVars, eventVars, readyState,
                   docEvents, scrollIntervalId, children, idAttr, node_dom,
                   wrappers, chain>>

\* the host dispatches DOMContentLoaded to the listener on document
DOMContentLoaded ==
    /\ "DOMContentLoaded" \in docEvents
    /\ docEvents' = docEvents \ {"DOMContentLoaded"}
    /\ readyState' = "interactive"
    /\ scrollIntervalId' = AfterPageLoaded.scrollIntervalId
    /\ readyCallbacks' = AfterPageLoaded.readyCallbacks
    /\ timers' = AfterPageLoaded.timers
    /\ UNCHANGED <<hostVars, propVars, watchVars, eventVars, invocations, last,
                   children, idAttr, node_dom, wrappers, chain>>

\* the host dispatches load to the listener on window
Load ==
    /\ docEvents = {"load"}
    /\ docEvents' = {}
    /\ readyState' = "complete"
    /\ scrollIntervalId' = AfterPageLoaded.scrollIntervalId
    /\ readyCallbacks' = AfterPageLoaded.readyCallbacks
    /\ timers' = AfterPageLoaded.timers
    /\ UNCHANGED <<hostVars, propVars, watchVars, eventVars, invocations, last,
                   children, idAttr, node_dom, wrappers, chain>>

\* the poll of the legacy host runs and testDiv.doScroll() does not throw:
\* the document is parsed (a run in which it throws changes nothing)
ScrollPoll ==
    /\ scrollIntervalId # 0
    /\ readyState' = IF readyState = "loading" THEN "interactive"
                     ELSE readyState
    /\ scrollIntervalId' = AfterPageLoaded.scrollIntervalId
    /\ readyCallbacks' = AfterPageLoaded.readyCallbacks
    /\ timers' = AfterPageLoaded.timers
    /\ UNCHANGED <<hostVars, propVars, watchVars, eventVars, docEvents,
                   invocations, last, children, idAttr, node_dom, wrappers,
                   chain>>

RECURSIVE RunsSoFar(_)
\* how many calls of callbacks the timers have made
RunsSoFar(inv) ==
    IF inv = <<>> THEN 0 ELSE Head(inv).count + RunsSoFar(Tail(inv))

\* the host runs the oldest zero-delay timer: the callback is called; what
\* it throws goes to the host and ends this timer only
Timer ==
    /\ timers # <<>>
    /\ timers' = Tail(timers)
    /\ invocations' =
          [invocations EXCEPT ![Head(timers)].count = @ + 1,
                              ![Head(timers)].at = RunsSoFar(invocations) + 1]
    /\ UNCHANGED <<hostVars, propVars, watchVars, eventVars, readyState,
                   docEvents, scrollIntervalId, readyCallbacks, last,
                   children, idAttr, node_dom, wrappers, chain>>

(***************************************************************************)
(* SpecReady: the library is loaded into a page that is loading,           *)
(* interactive or complete, on a standard host, on a host with both event  *)
(* interfaces and on a legacy host; the host delivers its load events and  *)
(* runs its timers.                                                        *)
(***************************************************************************)
\* the events still to come for a page in the state rs
EventsToCome(w3c, rs) ==
    CASE rs = "loading" ->
            {IF w3c THEN {"DOMContentLoaded", "load"} ELSE {"load"}}
      [] rs = "interactive" ->
            IF w3c THEN {{"DOMContentLoaded", "load"}, {"load"}}
            ELSE {{"load"}}
      [] OTHER -> {{"load"}, {}}

InitSpecReady ==
    /\ InitLibrary
    /\ InitEvents
    /\ InitProps
    /\ InitWatch
    /\ isW3Compliant \in BOOLEAN
    /\ isIECompliant \in BOOLEAN
    /\ isW3Compliant \/ isIECompliant
    /\ focusinSupported = TRUE
    /\ children = ChainTree
    /\ InitTags
    /\ InitNames
    /\ idAttr = [e \in Elements |-> Absent]
    /\ className = [e \in Elements |-> <<>>]
    /\ readyState \in {"loading", "interactive", "complete"}
    /\ docEvents \in EventsToCome(isW3Compliant, readyState)
    /\ invocations = <<>>
    /\ timers = <<>>
    \* the poll is set on a legacy host whose window is the top one
    /\ \E poll \in IF isW3Compliant THEN {0} ELSE {0, 1} :
          LET st == ReadyState(poll, <<>>, <<>>)
          IN  /\ scrollIntervalId =
                    IF AlreadyLoaded THEN pageLoaded(st).scrollIntervalId
                    ELSE st.scrollIntervalId
              /\ readyCallbacks =
                    IF AlreadyLoaded THEN pageLoaded(st).readyCallbacks
                    ELSE st.readyCallbacks

ReadyStep == \E callback \in {"number", "function", "throws"} : Ready(callback)

NextReady ==
    \/ ReadyStep
    \/ DOMContentLoaded
    \/ Load
    \/ ScrollPoll
    \/ Timer

SpecReady ==
    /\ InitSpecReady
    /\ [][NextReady]_vars
    /\ WF_vars(DOMContentLoaded)
    /\ WF_vars(Load)
    /\ WF_vars(Timer)

\* C20: every callback passed to ready is run at most once, not while the
\* page is loading, and only by a step of a timer; and every callback passed
\* to ready is run in the end, also one passed after the page was loaded.
C20_ReadyCallbacksOnce ==
    /\ [](\A i \in 1..Len(invocations) :
            /\ invocations[i].count <= 1
            /\ invocations[i].count = 1 => readyState # "loading")
    /\ [][invocations' # invocations /\ Len(invocations') = Len(invocations)
            => (timers # <<>> /\ timers' = Tail(timers)
                /\ readyCallbacks' = readyCallbacks
                /\ docEvents' = docEvents /\ last' = last)]_vars
    /\ \A i \in 1..MaxCallbacks :
          (Len(invocations) >= i) ~>
             (Len(invocations) >= i /\ invocations[i].count = 1)

\* both load events have come, a callback passed before and one passed
\* after the page was loaded have each been run once
C20_Witness ==
    /\ docEvents = {}
    /\ isW3Compliant
    /\ \E i, j \in 1..Len(invocations) :
          /\ ~invocations[i].late /\ invocations[i].count = 1
          /\ invocations[j].late /\ invocations[j].count = 1


\* a callback that throws has been passed to ready
SomeCallbackThrows == \E j \in 1..Len(invocations) : invocations[j].throws

\* C21: the callbacks passed to ready run in the order they were passed;
\* every load signal leaves readyCallbacks null, so a later callback goes to
\* a timer of its own; and when some callback throws, every callback passed
\* to ready is still run.
C21_ReadyIsolatedAndOrdered ==
    /\ [](\A i, j \in 1..Len(invocations) :
            (i < j /\ invocations[j].count > 0) =>
                /\ invocations[i].count > 0
                /\ invocations[i].at < invocations[j].at)
    /\ [][(docEvents' # docEvents \/ scrollIntervalId' # scrollIntervalId)
             => readyCallbacks' = NullCallbacks]_vars
    /\ \A i \in 1..MaxCallbacks :
          (Len(invocations) >= i /\ SomeCallbackThrows) ~>
             (Len(invocations) >= i /\ invocations[i].count > 0)

\* a callback that throws was run first, then one held with it, then one
\* passed after the page was loaded
C21_Witness ==
    /\ Len(invocations) = 3
    /\ invocations[1].throws /\ ~invocations[1].late /\ invocations[1].at = 1
    /\ ~invocations[2].late /\ invocations[2].at = 2
    /\ invocations[3].late /\ invocations[3].at = 3


(***************************************************************************)
(* Claims about the tokens of DOM.watch.                                   *)
(***************************************************************************)
\* C22: every watched selector has one token, one keyframe definition and
\* one animation rule in the style sheet, however often it was watched.
C22_OneTokenPerSelector ==
    \A s \in DOMAIN DOM_watchers :
        /\ Len(DOM_watchers[s]) = 1
        /\ Cardinality({ i \in 1..Len(styleSheet) :
                           /\ styleSheet[i].keyframes = NoName
                           /\ styleSheet[i].selector = s }) = 1
        /\ Cardinality({ i \in 1..Len(styleSheet) :
                           InSeq(styleSheet[i].keyframes, DOM_watchers[s]) })
              = 1

\* C23: watch calls for different selectors use different animation names,
\* and a callback is never called for a node its selector does not match.
C23_TokensUnique ==
    /\ \A j, k \in 1..Len(watchers) :
          watchers[j].selector # watchers[k].selector =>
              watchers[j].animationName # watchers[k].animationName
    /\ \A k \in 1..Len(watchers), e \in Elements :
          watchers[k].count[e] > 0 => HostMatches(e, watchers[k].selector)


(***************************************************************************)
(* SpecFire: two bindings, one direct and one delegated, and fire.         *)
(***************************************************************************)
\* bindings made in one run of SpecFire
MaxFireBindings == 2

\* the selector S of the delegated bindings
FireSelector == Sel("", "", "", "a")

InitSpecFire ==
    /\ InitProps
    /\ InitReady
    /\ InitWatch
    /\ node_dom = [n \in Nodes |-> 0]
    /\ wrappers = PageWrappers
    /\ chain = NoChain
    /\ last = [op |-> "init", raised |-> NoError]
    /\ InitEvents
    /\ isW3Compliant \in BOOLEAN
    /\ isIECompliant = ~isW3Compliant
    /\ focusinSupported \in BOOLEAN
    /\ isW3Compliant \/ focusinSupported
    /\ children = ChainTree
    /\ InitTags
    /\ InitNames
    /\ idAttr = [e \in Elements |-> Absent]
    /\ className \in { f \in [Elements -> {<<>>, <<"a">>}] : f[htmlEl] = <<>> }

\* on(type, cb1) and on(type, S, cb2)
FireOnStep ==
    \E w \in 1..Len(wrappers), type \in EventTypes,
       rest \in { <<JsFunction("cb1"), JsUndefined>>,
                  <<JsString(FireSelector), JsFunction("cb2")>> } :
        OnWithin(MaxFireBindings, w, StringEvent(<<type>>), rest[1], rest[2])

FireOffStep ==
    \E w \in 1..Len(wrappers), type \in EventTypes :
        Off(w, type, JsFunction("cb1"))

NextFire == FireOnStep \/ FireOffStep \/ FireStep

SpecFire == InitSpecFire /\ [][NextFire]_vars

\* the name a type is bound and fired under: the hook's name if it has one
HookName(type) ==
    IF eventHooks(type).name # "" THEN eventHooks(type).name ELSE type

\* binding <<w, i>> is registered for the type the last call fired, with a
\* function as callback, on the target or on an ancestor of the target
BoundForFired(w, i) ==
    /\ wrappers[w].events[i].type = last.type
    /\ wrappers[w].events[i].callback.t = "function"
    /\ Registered(w, i)
    /\ containsElement(children, wrappers[w].node, last.target)

\* C24: fire(type) invokes once the callback of every direct binding for
\* that type registered on the target or on an ancestor, and once the
\* callback of every delegated binding on an ancestor whose selector the
\* target matches; the event is a custom event exactly when the type has a
\* ':' and goes out under the hook's name.
C24_FireObservedByAllBound ==
    (last.op = "fire" /\ last.raised = NoError) =>
        /\ \A h \in AllBindings(wrappers) :
              BoundForFired(h[1], h[2]) =>
                 LET entry == wrappers[h[1]].events[h[2]]
                 IN  IF ~Truthy(entry.selector)
                     THEN Count(last.invoked, h) = 1
                     ELSE (/\ wrappers[h[1]].node # last.target
                           /\ SelectorMatcher_test(last.target,
                                                   entry.selector.sel))
                             => Count(last.invoked, h) = 1
        /\ last.custom = HasColon(last.type)
        /\ (IF last.srcUrn # "" THEN last.srcUrn ELSE last.dispatched)
              = HookName(last.type)

\* C24 witness: a fire on a node matching S invoked cb1 of a direct binding
\* and cb2 of a delegated binding, both made on an ancestor, once each.
C24_Witness ==
    /\ last.op = "fire"
    /\ last.raised = NoError
    /\ Len(last.invoked) = 2
    /\ \E h1, h2 \in AllBindings(wrappers) :
          /\ h1 # h2
          /\ BoundForFired(h1[1], h1[2])
          /\ BoundForFired(h2[1], h2[2])
          /\ wrappers[h1[1]].node # last.target
          /\ wrappers[h2[1]].node # last.target
          /\ ~Truthy(wrappers[h1[1]].events[h1[2]].selector)
          /\ Truthy(wrappers[h2[1]].events[h2[2]].selector)
          /\ Count(last.invoked, h1) = 1
          /\ Count(last.invoked, h2) = 1


\* C25: the binding sequence of every wrapper holds exactly the bindings
\* the host has a listener for: off removes the record of each binding it
\* unregisters, so no record outlives its listener.
C25_RecordsAreRegistered ==
    \A h \in AllBindings(wrappers) : Registered(h[1], h[2])


(***************************************************************************)
(* The sandbox parser: parse(html) and fragment(html).  A markup string is *)
(* kept as the tags of its top-level elements, in source order.            *)
(***************************************************************************)
\* top-level elements of one markup string
MaxTops == 4

MarkupTags == {"div", "span", "p"}

SandboxMarkups == UNION { [1..n -> MarkupTags] : n \in 0..MaxTops }

\* what appendChild raises when its argument is not a node
AppendChildError == <<"host: appendChild(undefined)">>

\* sandbox.parse: el.innerHTML = "shy;" + html, the leading text node is
\* removed and el.children is returned: the top-level elements, each known
\* by its place in the source
sandbox_parse(html) == [k \in 1..Len(html) |-> [tag |-> html[k], at |-> k]]

\* the sequence without its k-th member
RemoveAt(seq, k) ==
    [j \in 1..(Len(seq) - 1) |-> IF j < k THEN seq[j] ELSE seq[j + 1]]

RECURSIVE forEach_appendTo(_, _, _, _)
\* _.forEach(list, appendTo, fragment): for (i = 0, n = list.length; i < n;
\* ++i) fragment.appendChild(list[i]).  list is el.children, a live
\* collection: appendChild moves the node out of el and the collection
\* loses it.  list[i] beyond the end is undefined and appendChild raises.
forEach_appendTo(list, i, n, fragment) ==
    IF i >= n
    THEN [fragment |-> fragment, sandbox |-> list, raised |-> NoError]
    ELSE IF i + 1 > Len(list)
         THEN [fragment |-> fragment, sandbox |-> list,
               raised |-> AppendChildError]
         ELSE forEach_appendTo(RemoveAt(list, i + 1), i + 1, n,
                               Append(fragment, list[i + 1]))

\* sandbox.fragment(html)
sandbox_fragment(html) ==
    LET list == sandbox_parse(html)
    IN  forEach_appendTo(list, 0, Len(list), <<>>)

\* sandbox.fragment(html), as replace(string) and an extend template call it
Fragment(html) ==
    /\ LET res == sandbox_fragment(html)
       IN  last' = [op |-> "fragment", html |-> html,
                    fragment |-> res.fragment, sandbox |-> res.sandbox,
                    raised |-> res.raised]
    /\ UNCHANGED <<hostVars, readyVars, propVars, watchVars, children, idAttr,
                   node_dom, wrappers, chain, eventVars>>

InitSpecSandbox ==
    /\ InitLibrary
    /\ InitEvents
    /\ InitProps
    /\ InitReady
    /\ InitWatch
    /\ InitTags
    /\ InitNames
    /\ isW3Compliant = TRUE
    /\ isIECompliant = FALSE
    /\ focusinSupported = TRUE
    /\ children = LoneTree
    /\ idAttr = [e \in Elements |-> Absent]
    /\ className = [e \in Elements |-> <<>>]

FragmentStep == \E html \in SandboxMarkups : Fragment(html)

NextSandbox == FragmentStep

SpecSandbox == InitSpecSandbox /\ [][NextSandbox]_vars

\* C26: fragment(html) does not raise and the fragment it returns holds
\* every top-level element of the markup, in source order.
C26_FragmentHoldsEveryTopLevel ==
    last.op = "fragment" =>
        /\ last.raised = NoError
        /\ last.fragment = sandbox_parse(last.html)


\* C27: on either host a fire invokes only callbacks the standard model
\* would invoke for the same calls: callbacks bound for the fired type and
\* not unbound again by off(type, cb), custom types included; so on('ns:evt',
\* cb), off('ns:evt', cb), fire('ns:evt') invokes nothing on either host.
C27_HostsAgreeOnInvocations ==
    (last.op = "fire" /\ last.raised = NoError) =>
        \A k \in 1..Len(last.invoked) :
            /\ wrappers[last.invoked[k][1]].events[last.invoked[k][2]].type
                  = last.type
            /\ last.invoked[k] \notin offed


(***************************************************************************)
(* SpecIdentity: several lookups of one node, with bindings and data made  *)
(* through the wrappers the lookups return.                                *)
(***************************************************************************)
\* the one data key of the model and the value setData stores under it
DataKey == "x"
DataValue == "v1"

\* wrapper.setData(key, value): key is a string, a mapping {x: value} or,
\* against the contract, a number
SetData(w, keyType, value) ==
    /\ ~IsNull(w)
    /\ IF keyType \in {"string", "object"}
       THEN /\ wrappers' = [wrappers EXCEPT ![w].data = value]
            /\ last' = [op |-> "setData", ret |-> Undefined,
                        raised |-> NoError]
       ELSE /\ wrappers' = wrappers
            /\ last' = [op |-> "setData", ret |-> Undefined,
                        raised |-> makeError("setData", "DOMElement")]
    /\ UNCHANGED <<hostVars, readyVars, propVars, watchVars, children, idAttr,
                   node_dom, chain, eventVars>>

\* wrapper.getData(key): this._data[key], else the data- attribute, which is
\* then kept in _data; the document has no hasAttribute method
GetData(w, keyType) ==
    /\ ~IsNull(w)
    /\ LET node == wrappers[w].node
           result == wrappers[w].data
       IN  IF keyType # "string"
           THEN /\ wrappers' = wrappers
                /\ last' = [op |-> "getData", ret |-> Undefined,
                            raised |-> makeError("getData", "DOMElement")]
           ELSE IF result # Undefined
           THEN /\ wrappers' = wrappers
                /\ last' = [op |-> "getData", ret |-> result,
                            raised |-> NoError]
           ELSE IF node = Document
           THEN /\ wrappers' = wrappers
                /\ last' = [op |-> "getData", ret |-> Undefined,
                            raised |-> TypeError]
           ELSE IF attrs[node]["data-" \o DataKey] # Absent
           THEN /\ wrappers' = [wrappers EXCEPT ![w].data =
                                   attrs[node]["data-" \o DataKey]]
                /\ last' = [op |-> "getData",
                            ret |-> attrs[node]["data-" \o DataKey],
                            raised |-> NoError]
           ELSE /\ wrappers' = wrappers
                /\ last' = [op |-> "getData", ret |-> Undefined,
                            raised |-> NoError]
    /\ UNCHANGED <<hostVars, readyVars, propVars, watchVars, children, idAttr,
                   node_dom, chain, eventVars>>

\* the page: document > html > div > span; the span may carry data-x="v0"
InitSpecIdentity ==
    /\ InitLibrary
    /\ InitEvents
    /\ InitReady
    /\ InitWatch
    /\ InitStyle
    /\ InitTags
    /\ InitNames
    /\ isW3Compliant \in BOOLEAN
    /\ isIECompliant = ~isW3Compliant
    /\ focusinSupported = TRUE
    /\ children = ChainTree
    /\ idAttr = [e \in Elements |-> Absent]
    /\ className = [e \in Elements |-> <<>>]
    /\ attrs \in { [e \in Elements |->
                      [a \in AttrNames |->
                          IF a = "data-x" /\ e = NumElements THEN v
                          ELSE Absent]] : v \in {Absent, "v0"} }

\* DOM.find("div"), DOM.find("span")
IdentityFindStep ==
    \E sel \in {Sel("div", "", "", ""), Sel("span", "", "", "")} :
        Find(1, sel)

IdentityTypes == {"click", "focus"}

IdentityOnStep ==
    \E w \in 1..Len(wrappers), type \in IdentityTypes :
        On(w, StringEvent(<<type>>), JsFunction("cb1"), JsUndefined)

IdentityOffStep ==
    \E w \in 1..Len(wrappers), type \in IdentityTypes :
        Off(w, type, JsFunction("cb1"))

IdentityFireStep ==
    \E w \in 1..Len(wrappers), type \in IdentityTypes : Fire(w, type)

SetDataStep ==
    \E w \in 1..Len(wrappers), keyType \in {"string", "object", "number"} :
        SetData(w, keyType, DataValue)

GetDataStep ==
    \E w \in 1..Len(wrappers), keyType \in {"string", "number"} :
        GetData(w, keyType)

NextIdentity ==
    \/ IdentityFindStep
    \/ IdentityOnStep
    \/ IdentityOffStep
    \/ IdentityFireStep
    \/ SetDataStep
    \/ GetDataStep

SpecIdentity == InitSpecIdentity /\ [][NextIdentity]_vars

\* the host holds a listener on node n made by on(type, cb)
ListenerLeft(ls, ws, n, type, cb) ==
    \E k \in 1..Len(ls[n]) :
        /\ ws[ls[n][k].w].events[ls[n][k].i].type = type
        /\ ws[ls[n][k].w].events[ls[n][k].i].callback = cb

\* setData has stored a value for node n through some wrapper of n
StoredFor(ws, n) ==
    \E w \in 1..Len(ws) : ws[w].node = n /\ ws[w].data = DataValue

\* C28: bindings and data belong to the node.  off(type, cb) through any
\* wrapper of node n leaves no listener of on(type, cb) on n, through
\* whichever wrapper of n it was made; getData through any wrapper of n
\* returns the value setData stored through any wrapper of n.
C28_BindingsAndDataFollowNode ==
    [][ /\ \A w \in 1..Len(wrappers), type \in IdentityTypes :
              Off(w, type, JsFunction("cb1")) =>
                  ~ListenerLeft(listeners', wrappers', wrappers[w].node,
                                type, JsFunction("cb1"))
        /\ \A w \in 1..Len(wrappers) :
              (GetData(w, "string") /\ StoredFor(wrappers, wrappers[w].node))
                  => last'.ret = DataValue ]_vars


\* C29: every node find or findAll returns on a wrapper of a node R other
\* than the document is a proper descendant of R.
C29_QueriesScopedToRoot ==
    (/\ last.op \in {"find", "findAll"}
     /\ last.raised = NoError
     /\ wrappers[last.w].node # Document) =>
        \A k \in 1..Len(last.ret) :
            wrappers[last.ret[k]].node # NoNode =>
                /\ wrappers[last.ret[k]].node # wrappers[last.w].node
                /\ containsElement(children, wrappers[last.w].node,
                                   wrappers[last.ret[k]].node)


(***************************************************************************)
(* The matches module: $Element.prototype.matches and its hooks.           *)
(***************************************************************************)
\* the selector arguments of matches: text is the string, sel its parsed
\* form when it is no hook
HookSelector(text) == [t |-> "string", text |-> text, sel |-> NoSel]
PlainSelector(text, sel) == [t |-> "string", text |-> text, sel |-> sel]
EmptySelector == [t |-> "string", text |-> "", sel |-> NoSel]
NumberSelector == [t |-> "number", text |-> "", sel |-> NoSel]

MatchesSelectors ==
    { HookSelector(":hidden"), HookSelector(":visible"),
      PlainSelector("div", Sel("div", "", "", "")),
      EmptySelector, NumberSelector }

\* _.computeStyle(node).display: the inline display, else the default
computeStyle(node) ==
    [display |-> IF style[node]["display"] # "" THEN style[node]["display"]
                 ELSE "block"]

\* hooks[":hidden"] without the test of containment in the document element
hooks_NoContainment(selector, node) ==
    LET hidden == \/ attrs[node]["aria-hidden"] = "true"
                  \/ computeStyle(node).display = "none"
    IN  IF selector = ":hidden" THEN hidden ELSE ~hidden

\* hooks[":hidden"] and hooks[":visible"], applied to a node (the ":focus"
\* hook, which reads document.activeElement, is left out)
hooks(selector, node) ==
    LET hidden == \/ attrs[node]["aria-hidden"] = "true"
                  \/ computeStyle(node).display = "none"
                  \/ ~containsElement(children, htmlEl, node)
    IN  IF selector = ":hidden" THEN hidden ELSE ~hidden

\* $Element.prototype.matches: what it returns ("true", "false", or the
\* absent node itself, "null") and what it raises
matches(w, selector) ==
    IF selector.t # "string" \/ selector.text = ""
    THEN [ret |-> "none", raised |-> makeError("matches", "DOMElement")]
    ELSE LET node == wrappers[w].node
             checker == IF selector.text \in {":hidden", ":visible"}
                        THEN hooks(selector.text, node)
                        ELSE SelectorMatcher_test(node, selector.sel)
         IN  IF node = NoNode THEN [ret |-> "null", raised |-> NoError]
             ELSE [ret |-> IF checker THEN "true" ELSE "false",
                   raised |-> NoError]

\* wrapper.matches(selector) of the matches module
ElementMatches(w, selector) ==
    /\ wrappers[w].ctor # "DOMNode"
    /\ last' = [op |-> "matches", w |-> w, selector |-> selector,
                ret |-> matches(w, selector).ret,
                raised |-> matches(w, selector).raised]
    /\ UNCHANGED <<hostVars, readyVars, propVars, watchVars, children, idAttr,
                   node_dom, wrappers, chain, eventVars>>

\* a page (all elements in the document, or 2 and its children detached)
\* whose elements below <html> have aria-hidden and an inline display or
\* not; the script holds their wrappers and one wrapper without a node
InitSpecHidden ==
    /\ InitReady
    /\ InitWatch
    /\ InitEvents
    /\ InitTags
    /\ InitNames
    /\ node_dom = [n \in Nodes |-> 0]
    /\ wrappers = Append(PageWrappers, NewNullWrapper("DOMNullElement"))
    /\ chain = NoChain
    /\ last = [op |-> "init", raised |-> NoError]
    /\ isW3Compliant = TRUE
    /\ isIECompliant = FALSE
    /\ focusinSupported = TRUE
    /\ children \in {ChainTree, ListDetachedTree}
    /\ idAttr = [e \in Elements |-> Absent]
    /\ className = [e \in Elements |-> <<>>]
    /\ attrs \in { [e \in Elements |->
                      [a \in AttrNames \cup {"aria-hidden"} |->
                          IF a = "aria-hidden" /\ e # htmlEl THEN f[e]
                          ELSE Absent]] :
                   f \in [Elements -> {Absent, "true", "false"}] }
    /\ style \in { [e \in Elements |->
                      [q \in StyleProps \cup {"display"} |->
                          IF q = "display" /\ e # htmlEl THEN g[e] ELSE ""]] :
                   g \in [Elements -> {"", "none"}] }

ElementMatchesStep ==
    \E w \in 1..Len(wrappers), selector \in MatchesSelectors :
        ElementMatches(w, selector)

NextHidden == ElementMatchesStep

SpecHidden == InitSpecHidden /\ [][NextHidden]_vars

\* C30: on a wrapper with a node, matches(':hidden') is true exactly when
\* aria-hidden is 'true', or the computed display is 'none', or the node is
\* not in the document element, and matches(':visible') is true exactly
\* when matches(':hidden') is not; an empty or non-string selector raises
\* the argument error; on a wrapper without a node the result is falsy.
C30_VisibleComplementsHidden ==
    last.op = "matches" =>
        LET node == wrappers[last.w].node
            hidden == \/ attrs[node]["aria-hidden"] = "true"
                      \/ style[node]["display"] = "none"
                      \/ ~InSeq(node, Preorder(children, htmlEl))
        IN  /\ (last.selector.t # "string" \/ last.selector.text = "")
                  <=> last.raised = makeError("matches", "DOMElement")
            /\ (last.raised = NoError /\ node = NoNode)
                  => last.ret \in {"false", "null"}
            /\ (last.raised = NoError /\ node # NoNode) =>
                  /\ last.selector.text = ":hidden"
                        => (last.ret = "true") = hidden
                  /\ last.selector.text = ":visible"
                        => (last.ret = "true") = ~hidden
                  /\ (matches(last.w, HookSelector(":hidden")).ret = "true")
                        # (matches(last.w, HookSelector(":visible")).ret
                              = "true")

\* C30 witness: matches(':visible') was false on a node that has no
\* aria-hidden and no display of its own but is outside the document
\* element.
C30_Witness ==
    /\ last.op = "matches"
    /\ last.raised = NoError
    /\ last.selector.text = ":visible"
    /\ last.ret = "false"
    /\ wrappers[last.w].node # NoNode
    /\ attrs[wrappers[last.w].node]["aria-hidden"] = Absent
    /\ style[wrappers[last.w].node]["display"] = ""
    /\ ~containsElement(children, htmlEl, wrappers[last.w].node)

=============================================================================
